---------------------------- MODULE Spec2Model ----------------------------
(***************************************************************************)
(* code2context (c2c): the inclusion/exclusion decision engine             *)
(* (FileFilter.IsExcluded), the .gitignore matcher cache                   *)
(* (Processor.compileAndCacheGitIgnore), the tree builder                  *)
(* (TreeBuilder.buildNodeRecursive) and the traversal driver               *)
(* (Processor.Process, the filepath.WalkDir callback).                     *)
(*                                                                         *)
(* Strings are sequences of one-character strings, so that extensions,     *)
(* letter case, prefixes, globs and byte order are computed, not assumed.  *)
(* A path is a sequence of names (its components).                         *)
(***************************************************************************)
EXTENDS Integers, Sequences, FiniteSets, TLC

----------------------------------------------------------------------------
(* Strings                                                                 *)

\* The printable ASCII characters in code-point order (quotes, backslash and backtick left out).
AsciiChars ==
    << " ", "!", "#", "$", "%", "&", "(", ")", "*", "+", ",", "-", ".", "/", "0", "1", "2", "3"
       , "4", "5", "6", "7", "8", "9", ":", ";", "<", "=", ">", "?", "@", "A", "B", "C", "D", "E"
       , "F", "G", "H", "I", "J", "K", "L", "M", "N", "O", "P", "Q", "R", "S", "T", "U", "V", "W"
       , "X", "Y", "Z", "[", "]", "^", "_", "a", "b", "c", "d", "e", "f", "g", "h", "i", "j", "k"
       , "l", "m", "n", "o", "p", "q", "r", "s", "t", "u", "v", "w", "x", "y", "z", "{", "|", "}"
       , "~" >>

CharSet == {AsciiChars[i] : i \in DOMAIN AsciiChars}

\* Position of a character in AsciiChars; Go compares strings byte-wise.
CodeOf == [c \in CharSet |-> CHOOSE i \in DOMAIN AsciiChars : AsciiChars[i] = c]

UpperA == CodeOf["A"]
UpperZ == CodeOf["Z"]
LowerOffset == CodeOf["a"] - CodeOf["A"]

\* strings.ToLower on one ASCII character.
LowerCh == [c \in CharSet |->
              IF CodeOf[c] >= UpperA /\ CodeOf[c] <= UpperZ
              THEN AsciiChars[CodeOf[c] + LowerOffset] ELSE c]

\* strings.ToLower
ToLower(s) == [i \in DOMAIN s |-> LowerCh[s[i]]]

\* strings.HasPrefix / strings.HasSuffix
HasPrefix(s, p) == Len(p) <= Len(s) /\ SubSeq(s, 1, Len(p)) = p
HasSuffix(s, p) == Len(p) <= Len(s) /\ SubSeq(s, Len(s) - Len(p) + 1, Len(s)) = p

\* strings.Contains for a single character
ContainsCh(s, c) == \E i \in DOMAIN s : s[i] = c

\* Go's < on strings: byte-wise lexicographic order.
RECURSIVE StrLess(_, _)
StrLess(a, b) ==
    IF b = <<>> THEN FALSE
    ELSE IF a = <<>> THEN TRUE
    ELSE IF Head(a) = Head(b) THEN StrLess(Tail(a), Tail(b))
    ELSE CodeOf[Head(a)] < CodeOf[Head(b)]

\* filepath.Ext on a base name: the suffix starting at the last dot, "" if none.
Ext(name) ==
    LET dots == {i \in DOMAIN name : name[i] = "."}
    IN  IF dots = {} THEN <<>>
        ELSE LET i == CHOOSE k \in dots : \A m \in dots : m <= k
             IN  SubSeq(name, i, Len(name))

\* filepath.Match for patterns made of literals, '*' and '?' (no character
\* classes, no escapes): '*' matches any run of non-separator characters, '?'
\* one non-separator character.
RECURSIVE Match(_, _)
Match(pattern, name) ==
    IF pattern = <<>> THEN name = <<>>
    ELSE IF Head(pattern) = "*"
         THEN \/ Match(Tail(pattern), name)
              \/ /\ name # <<>>
                 /\ Head(name) # "/"
                 /\ Match(pattern, Tail(name))
    ELSE IF Head(pattern) = "?"
         THEN name # <<>> /\ Head(name) # "/" /\ Match(Tail(pattern), Tail(name))
    ELSE name # <<>> /\ Head(name) = Head(pattern) /\ Match(Tail(pattern), Tail(name))

\* A path (sequence of names) written with forward slashes, no leading slash.
RECURSIVE JoinSlash(_)
JoinSlash(comps) ==
    IF comps = <<>> THEN <<>>
    ELSE IF Len(comps) = 1 THEN comps[1]
    ELSE comps[1] \o <<"/">> \o JoinSlash(Tail(comps))

\* Membership of a string in a list ([]string scanned with ==).
InList(x, list) == \E i \in DOMAIN list : list[i] = x

\* strings.TrimPrefix / strings.TrimSuffix
TrimPrefix(s, p) == IF HasPrefix(s, p) THEN SubSeq(s, Len(p) + 1, Len(s)) ELSE s
TrimSuffix(s, p) == IF HasSuffix(s, p) THEN SubSeq(s, 1, Len(s) - Len(p)) ELSE s

\* strings.Replace(s, old, new, 1) for single characters.
ReplaceFirstCh(s, old, new) ==
    IF ~ContainsCh(s, old) THEN s
    ELSE LET i == CHOOSE k \in DOMAIN s :
                     s[k] = old /\ \A m \in 1..(k - 1) : s[m] # old
         IN  [s EXCEPT ![i] = new]

\* The last element of strings.Split(s, "/"): what follows the last slash.
LastPart(s) ==
    LET slashes == {i \in DOMAIN s : s[i] = "/"}
    IN  IF slashes = {} THEN s
        ELSE SubSeq(s, (CHOOSE k \in slashes : \A m \in slashes : m <= k) + 1, Len(s))

\* The prefixes and the suffix gitutils looks for.
U ==
    [ https      |-> <<"h","t","t","p","s",":","/","/">>
    , http       |-> <<"h","t","t","p",":","/","/">>
    , git_at     |-> <<"g","i","t","@">>
    , ssh        |-> <<"s","s","h",":","/","/">>
    , dot_git    |-> <<".","g","i","t">>
    , repository |-> <<"r","e","p","o","s","i","t","o","r","y">> ]

\* gitutils.IsGitURL
IsGitURL(path) ==
    \/ HasPrefix(path, U.http)
    \/ HasPrefix(path, U.https)
    \/ HasPrefix(path, U.git_at)
    \/ HasPrefix(path, U.ssh)
    \/ HasSuffix(path, U.dot_git)

\* gitutils.getRepoNameFromURL
getRepoNameFromURL(repoURL) ==
    LET noPrefix ==
            IF HasPrefix(repoURL, U.https) THEN TrimPrefix(repoURL, U.https)
            ELSE IF HasPrefix(repoURL, U.http) THEN TrimPrefix(repoURL, U.http)
            ELSE IF HasPrefix(repoURL, U.git_at)
            THEN ReplaceFirstCh(TrimPrefix(repoURL, U.git_at), ":", "/")
            ELSE repoURL
        parsedURL == TrimSuffix(noPrefix, U.dot_git)
        repoName  == LastPart(parsedURL)
    IN  IF repoName # <<>> THEN repoName ELSE U.repository

\* strings.TrimSpace, for strings whose only white space is the space.
RECURSIVE TrimSpace(_)
TrimSpace(s) ==
    IF s = <<>> THEN s
    ELSE IF Head(s) = " " THEN TrimSpace(Tail(s))
    ELSE IF s[Len(s)] = " " THEN TrimSpace(SubSeq(s, 1, Len(s) - 1))
    ELSE s

----------------------------------------------------------------------------
(* Numbers wider than the integers of TLC                                  *)

\* A natural number of any size is the sequence of its digits in base 2^15,
\* least significant first, without leading zeros: <<>> is 0, <<0, 1>> is
\* 2^15.  int64 and float64 values are kept exactly this way.
LimbBits == 15
Base == 2 ^ LimbBits

RECURSIVE Norm(_)
Norm(a) ==
    IF a = <<>> THEN a
    ELSE IF a[Len(a)] = 0 THEN Norm(SubSeq(a, 1, Len(a) - 1))
    ELSE a

\* a * k + c for k and c below the base.
RECURSIVE MulSmall(_, _, _)
MulSmall(a, k, c) ==
    IF a = <<>> THEN (IF c = 0 THEN <<>> ELSE <<c>>)
    ELSE LET t == Head(a) * k + c
         IN  <<t % Base>> \o MulSmall(Tail(a), k, t \div Base)

\* The quotient and the remainder of a by d, for d below the base.
RECURSIVE DivSmall(_, _)
DivSmall(a, d) ==
    IF a = <<>> THEN [q |-> <<>>, r |-> 0]
    ELSE LET hi  == DivSmall(Tail(a), d)
             cur == hi.r * Base + Head(a)
         IN  [q |-> Norm(<<cur \div d>> \o hi.q), r |-> cur % d]

\* a * 2^k and a \div 2^k.
Shl(a, k) ==
    IF a = <<>> THEN a
    ELSE Norm(MulSmall([i \in 1..(k \div LimbBits) |-> 0] \o a, 2 ^ (k % LimbBits), 0))
Shr(a, k) ==
    IF k \div LimbBits >= Len(a) THEN <<>>
    ELSE DivSmall(SubSeq(a, k \div LimbBits + 1, Len(a)), 2 ^ (k % LimbBits)).q

\* The number of binary digits of a.
RECURSIVE SmallLen(_)
SmallLen(n) == IF n = 0 THEN 0 ELSE 1 + SmallLen(n \div 2)
BitLen(a) == IF a = <<>> THEN 0 ELSE LimbBits * (Len(a) - 1) + SmallLen(a[Len(a)])

\* Binary digit i of a, the least significant being digit 1.
Bit(a, i) ==
    LET limb == (i - 1) \div LimbBits + 1
    IN  IF limb > Len(a) THEN 0
        ELSE (a[limb] \div 2 ^ ((i - 1) % LimbBits)) % 2

\* 2^n - 1.
AllOnes(n) == Norm(MulSmall([i \in 1..(n \div LimbBits) |-> Base - 1],
                            2 ^ (n % LimbBits), 2 ^ (n % LimbBits) - 1))

\* a * 10^k.
RECURSIVE TimesTen(_, _)
TimesTen(a, k) == IF k = 0 THEN a ELSE MulSmall(TimesTen(a, k - 1), 10, 0)

\* a \div 10^k, and whether the division left a remainder.
RECURSIVE DivTenPow(_, _)
DivTenPow(a, k) ==
    IF k = 0 THEN [q |-> a, inexact |-> FALSE]
    ELSE LET rest == DivTenPow(a, k - 1)
             d    == DivSmall(rest.q, 10)
         IN  [q |-> d.q, inexact |-> rest.inexact \/ d.r # 0]

\* a < b.
RECURSIVE BLess(_, _)
BLess(a, b) ==
    IF Len(a) # Len(b) THEN Len(a) < Len(b)
    ELSE IF a = <<>> THEN FALSE
    ELSE IF a[Len(a)] # b[Len(b)] THEN a[Len(a)] < b[Len(b)]
    ELSE BLess(Norm(SubSeq(a, 1, Len(a) - 1)), Norm(SubSeq(b, 1, Len(b) - 1)))

\* The value of a string of decimal digits.
DigitChars == <<"0", "1", "2", "3", "4", "5", "6", "7", "8", "9">>
IsDigit(c) == \E i \in DOMAIN DigitChars : DigitChars[i] = c
DigitValue(c) == (CHOOSE i \in DOMAIN DigitChars : DigitChars[i] = c) - 1
RECURSIVE FromDigits(_)
FromDigits(digits) ==
    IF digits = <<>> THEN <<>>
    ELSE MulSmall(FromDigits(SubSeq(digits, 1, Len(digits) - 1)), 10,
                  DigitValue(digits[Len(digits)]))

\* The bits of an int64 value and of a float64 significand.
Int64Bits == 63
MantissaBits == 53

\* math.MaxInt64.
MaxInt64 == AllOnes(Int64Bits)

\* strconv.ParseFloat(valueStr, 64) of the decimal intDigits.fracDigits: the
\* float64 nearest to the decimal, ties to the even significand.  A float64
\* is kept as m * 2^e with the significand m a natural number.
ParseFloat(intDigits, fracDigits) ==
    LET n == FromDigits(intDigits \o fracDigits)
        k == Len(fracDigits)
    IN  IF n = <<>> THEN [m |-> <<>>, e |-> 0]
        ELSE LET s    == MantissaBits + 2 + 4 * k
                 dv   == DivTenPow(Shl(n, s), k)
                 drop == BitLen(dv.q) - MantissaBits
                 kept == Shr(dv.q, drop)
                 half == Bit(dv.q, drop) = 1
                 low  == dv.inexact \/ Shl(Shr(dv.q, drop - 1), drop - 1) # dv.q
                 up   == half /\ (low \/ Bit(kept, 1) = 1)
             IN  [m |-> IF up THEN Norm(MulSmall(kept, 1, 1)) ELSE kept, e |-> drop - s]

\* x * 2^k, exact in float64 for the sizes parsed here.
FloatTimesPow2(x, k) == [m |-> x.m, e |-> x.e + k]

\* x >= 2^t and x > 2^t for a float64 x >= 0.
FloatGeqPow2(x, t) == x.m # <<>> /\ BitLen(x.m) - 1 + x.e >= t
FloatGtPow2(x, t) ==
    /\ x.m # <<>>
    /\ \/ BitLen(x.m) - 1 + x.e > t
       \/ /\ BitLen(x.m) - 1 + x.e = t
          /\ x.m # Shl(<<1>>, BitLen(x.m) - 1)

\* int64(x) for a float64 0 <= x < 2^63: the fraction is cut off.
FloatToInt64(x) == IF x.e >= 0 THEN Shl(x.m, x.e) ELSE Shr(x.m, 0 - x.e)

\* The number of digits a string starts with.
RECURSIVE DigitRun(_)
DigitRun(s) ==
    IF s = <<>> \/ ~IsDigit(Head(s)) THEN 0 ELSE 1 + DigitRun(Tail(s))

\* The string without its first k characters.
DropChars(s, k) == SubSeq(s, k + 1, Len(s))

RECURSIVE TrimLeftSpace(_)
TrimLeftSpace(s) ==
    IF s # <<>> /\ Head(s) = " " THEN TrimLeftSpace(Tail(s)) ELSE s

\* The unit letters, at 2^10, 2^20, 2^30 and 2^40 bytes.
UnitLetters == <<"k", "m", "g", "t">>
IsUnit(c) == \E i \in DOMAIN UnitLetters : UnitLetters[i] = LowerCh[c]
UnitShift(c) == 10 * (CHOOSE i \in DOMAIN UnitLetters : UnitLetters[i] = LowerCh[c])

\* fileSizeRegexOnlyDigits: one or more digits and nothing else.
OnlyDigits(s) == s # <<>> /\ DigitRun(s) = Len(s)

\* fileSizeRegex: digits, an optional fraction, optional white space, an
\* optional unit letter of either case, an optional B of either case.  Gives
\* whether s matches, the integer and fraction digits, and the unit's power
\* of two (0 without a unit letter).
SizeSyntax(s) ==
    LET n1     == DigitRun(s)
        rest1  == DropChars(s, n1)
        n2     == IF rest1 # <<>> /\ Head(rest1) = "." THEN DigitRun(Tail(rest1)) ELSE 0
        rest2  == IF n2 > 0 THEN DropChars(rest1, n2 + 1) ELSE rest1
        rest3  == TrimLeftSpace(rest2)
        unit   == rest3 # <<>> /\ IsUnit(Head(rest3))
        rest4  == IF unit THEN Tail(rest3) ELSE rest3
        rest5  == IF rest4 # <<>> /\ LowerCh[Head(rest4)] = "b" THEN Tail(rest4) ELSE rest4
    IN  [ ok    |-> n1 > 0 /\ rest5 = <<>>
        , int   |-> SubSeq(s, 1, n1)
        , frac  |-> IF n2 > 0 THEN SubSeq(rest1, 2, n2 + 1) ELSE <<>>
        , unit  |-> unit
        , shift |-> IF unit THEN UnitShift(Head(rest3)) ELSE 0 ]

\* What ParseFileSize returns: the bytes (0 with an error) and the error,
\* named by the part of its message that tells the errors apart.
Size(val) == [val |-> val, neg |-> FALSE, err |-> "nil"]
SizeErr(err) == [val |-> <<>>, neg |-> FALSE, err |-> err]

\* utils.ParseFileSize.
ParseFileSize(sizeStr) ==
    LET s   == TrimSpace(sizeStr)
        syn == SizeSyntax(s)
    IN  IF s = <<>> THEN SizeErr("file size string is empty")
        ELSE IF OnlyDigits(s)
        THEN IF BitLen(FromDigits(s)) > Int64Bits
             THEN SizeErr("invalid plain byte size: value out of range")
             ELSE Size(FromDigits(s))
        ELSE IF syn.ok
        THEN LET valueFloat == ParseFloat(syn.int, syn.frac)
                 calculatedBytesFloat == FloatTimesPow2(valueFloat, syn.shift)
             IN  IF ~syn.unit
                 THEN IF FloatGeqPow2(valueFloat, Int64Bits)
                      THEN SizeErr("overflows int64")
                      ELSE Size(FloatToInt64(valueFloat))
                 ELSE IF FloatGtPow2(valueFloat, Int64Bits - syn.shift)
                 THEN SizeErr("would overflow int64")
                 ELSE IF FloatGeqPow2(calculatedBytesFloat, Int64Bits)
                 THEN SizeErr("overflows int64")
                 ELSE Size(FloatToInt64(calculatedBytesFloat))
        ELSE SizeErr("invalid file size format")

\* The ParseFileSize of internal/utils/fileutils.go: the unit pattern is tried
\* first, and the product is converted with no range check.  Go leaves the
\* conversion of a float64 outside the int64 range to the implementation:
\* the smallest int64 (amd64) and the largest (arm64) are the outcomes
\* kept.  Gives the set of possible results.
ParseFileSizeUnchecked(sizeStr) ==
    LET s   == TrimSpace(sizeStr)
        syn == SizeSyntax(s)
        product == FloatTimesPow2(ParseFloat(syn.int, syn.frac), syn.shift)
    IN  IF s = <<>> THEN {SizeErr("file size string is empty")}
        ELSE IF syn.ok
        THEN IF FloatGeqPow2(product, Int64Bits)
             THEN {[val |-> Shl(<<1>>, Int64Bits), neg |-> TRUE, err |-> "nil"],
                   Size(MaxInt64)}
             ELSE {Size(FloatToInt64(product))}
        ELSE IF OnlyDigits(s) /\ BitLen(FromDigits(s)) <= Int64Bits
        THEN {Size(FromDigits(s))}
        ELSE {SizeErr("invalid file size format")}

----------------------------------------------------------------------------
(* appconfig: the default rule lists                                       *)

GetDefaultExcludedDirs ==
    << <<".","g","i","t">>, <<".","h","g">>, <<".","s","v","n">>, <<".","i","d","e","a">>
       , <<".","v","s","c","o","d","e">>, <<".","v","s">>, <<".","p","r","o","j","e","c","t">>
       , <<".","s","e","t","t","i","n","g","s">>, <<".","c","l","a","s","s","p","a","t","h">>
       , <<".","m","e","t","a","l","s">>, <<".","b","s","p">>, <<".","b","l","o","o","p">>
       , <<"n","o","d","e","_","m","o","d","u","l","e","s">>, <<"v","e","n","d","o","r">>
       , <<"t","a","r","g","e","t">>, <<"b","u","i","l","d">>, <<"d","i","s","t">>
       , <<"o","u","t">>, <<"b","i","n">>, <<"o","b","j">>
       , <<"_","_","p","y","c","a","c","h","e","_","_">>
       , <<".","p","y","t","e","s","t","_","c","a","c","h","e">>
       , <<".","m","y","p","y","_","c","a","c","h","e">>, <<".","t","o","x">>
       , <<".","v","e","n","v">>, <<"v","e","n","v">>, <<"E","N","V">>, <<"e","n","v">>
       , <<".","n","e","x","t">>, <<".","n","u","x","t">>
       , <<".","s","v","e","l","t","e","-","k","i","t">>, <<".","o","u","t","p","u","t">>
       , <<".","w","r","a","n","g","l","e","r">>, <<".","s","e","r","v","e","r","l","e","s","s">>
       , <<".","t","e","r","r","a","f","o","r","m">>, <<".","D","S","_","S","t","o","r","e">>
       , <<"T","h","u","m","b","s",".","d","b">>, <<".","c","a","c","h","e">>
       , <<".","i","p","y","n","b","_","c","h","e","c","k","p","o","i","n","t","s">>
       , <<"_","b","u","i","l","d">>, <<"d","e","p","s">>, <<"_","r","e","l">>
       , <<"e","b","i","n">> >>

GetDefaultMediaExtensions ==
    << <<".","j","p","g">>, <<".","j","p","e","g">>, <<".","p","n","g">>, <<".","g","i","f">>
       , <<".","b","m","p">>, <<".","t","i","f","f">>, <<".","w","e","b","p">>
       , <<".","s","v","g">>, <<".","i","c","o">>, <<".","m","p","3">>, <<".","w","a","v">>
       , <<".","o","g","g">>, <<".","a","a","c">>, <<".","f","l","a","c">>, <<".","m","4","a">>
       , <<".","m","p","4">>, <<".","a","v","i">>, <<".","m","o","v">>, <<".","w","m","v">>
       , <<".","m","k","v">>, <<".","f","l","v">>, <<".","w","e","b","m">>, <<".","p","d","f">>
       , <<".","d","o","c">>, <<".","d","o","c","x">>, <<".","x","l","s">>
       , <<".","x","l","s","x">>, <<".","p","p","t">>, <<".","p","p","t","x">>
       , <<".","o","d","t">>, <<".","o","d","s">>, <<".","o","d","p">>, <<".","t","t","f">>
       , <<".","o","t","f">>, <<".","w","o","f","f">>, <<".","w","o","f","f","2">>
       , <<".","e","o","t">>, <<".","p","s","d">>, <<".","a","i">>, <<".","e","p","s">>
       , <<".","s","k","e","t","c","h">>, <<".","f","i","g">> >>

GetDefaultArchiveExtensions ==
    << <<".","z","i","p">>, <<".","t","a","r">>, <<".","g","z">>, <<".","b","z","2">>
       , <<".","x","z">>, <<".","r","a","r">>, <<".","7","z">>, <<".","j","a","r">>
       , <<".","w","a","r">>, <<".","e","a","r">>, <<".","a","p","k">>, <<".","i","m","g">>
       , <<".","i","s","o">>, <<".","d","m","g">>, <<".","p","k","g">>, <<".","d","e","b">>
       , <<".","r","p","m">>, <<".","A","p","p","I","m","a","g","e">> >>

GetDefaultExecutableExtensions ==
    << <<".","e","x","e">>, <<".","c","o","m">>, <<".","b","a","t">>, <<".","c","m","d">>
       , <<".","p","s","1">>, <<".","v","b","s">>, <<".","m","s","i">>, <<".","p","y","c">>
       , <<".","p","y","o">>, <<".","c","l","a","s","s">>, <<".","d","l","l">>, <<".","s","o">>
       , <<".","d","y","l","i","b">>, <<".","o">>, <<".","o","b","j">>, <<".","l","i","b">>
       , <<".","a">>, <<".","e","l","f">> >>

GetDefaultLockfilePatterns ==
    << <<"g","o",".","s","u","m">>
       , <<"p","a","c","k","a","g","e","-","l","o","c","k",".","j","s","o","n">>
       , <<"y","a","r","n",".","l","o","c","k">>
       , <<"c","o","m","p","o","s","e","r",".","l","o","c","k">>
       , <<"G","e","m","f","i","l","e",".","l","o","c","k">>
       , <<"P","i","p","f","i","l","e",".","l","o","c","k">>
       , <<"p","o","e","t","r","y",".","l","o","c","k">>
       , <<"C","a","r","g","o",".","l","o","c","k">>
       , <<"*",".","g","r","a","d","l","e",".","l","o","c","k","f","i","l","e">>
       , <<"P","o","d","f","i","l","e",".","l","o","c","k">>
       , <<"p","u","b","s","p","e","c",".","l","o","c","k">>, <<"m","i","x",".","l","o","c","k">>
       , <<"n","p","m","-","s","h","r","i","n","k","w","r","a","p",".","j","s","o","n">>
       , <<"p","n","p","m","-","l","o","c","k",".","y","a","m","l">>
       , <<"r","e","q","u","i","r","e","m","e","n","t","s",".","t","x","t">>
       , <<"c","o","n","s","t","r","a","i","n","t","s",".","t","x","t">>
       , <<"t","e","r","r","a","f","o","r","m",".","l","o","c","k",".","h","c","l">> >>

GetDefaultMiscellaneousFileNames ==
    << <<"L","I","C","E","N","S","E">>, <<"C","O","P","Y","I","N","G">>
       , <<"N","O","T","I","C","E">>, <<"A","U","T","H","O","R","S">>
       , <<"C","H","A","N","G","E","L","O","G">>
       , <<"C","O","N","T","R","I","B","U","T","I","N","G">>, <<"M","A","N","I","F","E","S","T">> >>

GetDefaultMiscellaneousExtensions ==
    << <<".","l","o","g">>, <<".","t","m","p">>, <<".","b","a","k">>, <<".","s","w","p">>
       , <<".","s","w","o">>, <<".","o","r","i","g">>, <<".","r","e","j">>
       , <<".","p","a","t","c","h">>, <<".","d","i","f","f">>, <<".","s","q","l">>
       , <<".","g","i","t","i","g","n","o","r","e">>
       , <<".","d","o","c","k","e","r","i","g","n","o","r","e">>
       , <<".","n","p","m","i","g","n","o","r","e">>
       , <<".","e","s","l","i","n","t","i","g","n","o","r","e">>
       , <<".","p","r","e","t","t","i","e","r","i","g","n","o","r","e">>
       , <<".","e","d","i","t","o","r","c","o","n","f","i","g">>
       , <<".","g","i","t","a","t","t","r","i","b","u","t","e","s">>
       , <<".","g","i","t","m","o","d","u","l","e","s">>
       , <<".","p","r","e","t","t","i","e","r","r","c">>
       , <<".","s","t","y","l","e","l","i","n","t","r","c">>
       , <<".","e","s","l","i","n","t","r","c">>, <<".","b","a","b","e","l","r","c">> >>

GetDefaultAuxFileExtensions ==
    << <<".","j","s","o","n">>, <<".","j","s","o","n","c">>, <<".","j","s","o","n","5">>
       , <<".","x","m","l">>, <<".","t","o","m","l">>, <<".","y","m","l">>
       , <<".","y","a","m","l">>, <<".","i","n","i">>, <<".","c","f","g">>
       , <<".","c","o","n","f">>, <<".","p","r","o","p","e","r","t","i","e","s">>
       , <<".","e","n","v">>, <<".","c","s","v">>, <<".","t","s","v">>, <<".","m","d">>
       , <<".","m","a","r","k","d","o","w","n">>, <<".","r","s","t">>, <<".","a","d","o","c">>
       , <<".","t","e","x">>, <<".","t","x","t">>, <<".","t","e","x","t">>, <<".","l","o","g">>
       , <<".","e","d","i","t","o","r","c","o","n","f","i","g">>
       , <<".","g","i","t","a","t","t","r","i","b","u","t","e","s">>
       , <<".","g","i","t","m","o","d","u","l","e","s">>
       , <<".","p","r","e","t","t","i","e","r","r","c">>
       , <<".","s","t","y","l","e","l","i","n","t","r","c">>
       , <<".","e","s","l","i","n","t","r","c">>, <<".","b","a","b","e","l","r","c">>
       , <<".","e","s","l","i","n","t","i","g","n","o","r","e">>
       , <<".","p","r","e","t","t","i","e","r","i","g","n","o","r","e">>
       , <<".","d","o","c","k","e","r","i","g","n","o","r","e">>, <<"L","I","C","E","N","S","E">>
       , <<"R","E","A","D","M","E">>, <<"C","O","P","Y","I","N","G">>, <<"N","O","T","I","C","E">>
       , <<"A","U","T","H","O","R","S">>, <<"C","H","A","N","G","E","L","O","G">>
       , <<"C","O","N","T","R","I","B","U","T","I","N","G">>, <<"M","A","N","I","F","E","S","T">> >>
----------------------------------------------------------------------------
(* The .gitignore matcher: github.com/sabhiram/go-gitignore, the library   *)
(* behind gitignore.CompileIgnoreFile and GitIgnore.MatchesPath.  Each  *)
(* line is turned into a regular expression that is matched against the   *)
(* string it is given, which IsExcluded makes the ABSOLUTE path.           *)

\* A line yields a pattern unless it is blank or a comment.
IsPatternLine(line) == line # <<>> /\ Head(line) # "#"

\* getPatternFromLine, for lines made of an optional leading '!', an optional
\* leading '/', one component of literals and '*', and an optional trailing '/':
\*   body          -> ^(|.*/)body(|/.*)$        body/  -> ^(|.*/)body/(|.*)$
\*   /body         -> ^(|/)body(|/.*)$          /body/ -> ^(|/)body/(|.*)$
\* with '*' rewritten to ([^/]*) and '.' escaped.
GetPatternFromLine(line) ==
    LET negate   == Head(line) = "!"
        l1       == IF negate THEN Tail(line) ELSE line
        anchored == l1 # <<>> /\ Head(l1) = "/"
        l2       == IF anchored THEN Tail(l1) ELSE l1
        dirOnly  == l2 # <<>> /\ l2[Len(l2)] = "/"
        body     == IF dirOnly THEN SubSeq(l2, 1, Len(l2) - 1) ELSE l2
    IN  [negate |-> negate, anchored |-> anchored, dirOnly |-> dirOnly, body |-> body]

\* CompileIgnoreFile: one pattern per pattern line, in file order.
CompileIgnoreFile(lines) ==
    LET kept == SelectSeq(lines, IsPatternLine)
    IN  [i \in DOMAIN kept |-> GetPatternFromLine(kept[i])]

\* regexp.MatchString of one compiled line on the absolute path /c1/c2/.../cn
\* (no trailing slash, also for a directory).  The body has no slash, so it can
\* only cover one whole component; a directory-only line needs a slash after
\* it, that is a component that is not the last one.
PatternMatches(pat, absPath) ==
    LET n   == Len(absPath)
        idx == IF pat.anchored THEN {1} ELSE 1..n
    IN  \/ Match(pat.body, <<>>)
        \/ \E i \in idx : Match(pat.body, absPath[i]) /\ (pat.dirOnly => i < n)

\* GitIgnore.MatchesPath: scan all patterns in order; a matching plain
\* pattern sets the verdict, a matching negated pattern clears it.
RECURSIVE MatchesPathFrom(_, _, _, _)
MatchesPathFrom(patterns, i, absPath, acc) ==
    IF i > Len(patterns) THEN acc
    ELSE MatchesPathFrom(patterns, i + 1, absPath,
             IF PatternMatches(patterns[i], absPath)
             THEN ~patterns[i].negate
             ELSE acc)

MatchesPath(matcher, absPath) == MatchesPathFrom(matcher.patterns, 1, absPath, FALSE)

----------------------------------------------------------------------------
(* filefilter: FileFilter.IsExcluded                                       *)

\* runtime.GOOS != "windows": the model is of a POSIX build.
NotWindows == TRUE

\* filepath.Rel(ff.basePath, absPath), forward slashes, for a path at or
\* below the base path.
RelPath(basePath, absPath) ==
    IF absPath = basePath THEN <<".">>
    ELSE JoinSlash(SubSeq(absPath, Len(basePath) + 1, Len(absPath)))

\* The (bool, error) pair IsExcluded returns, tagged with the rule that
\* returned it.  err is "nil", "SkipDir" (filepath.SkipDir) or "info" (the
\* wrapped d.Info() failure).
Verdict(excluded, err, rule) == [excluded |-> excluded, err |-> err, rule |-> rule]

\* The gitignore loop of IsExcluded: matchers from the deepest to the root,
\* the first one whose MatchesPath is true excludes.
GitignoreExcludes(activeGitIgnores, absPath) ==
    \E i \in DOMAIN activeGitIgnores : MatchesPath(activeGitIgnores[i], absPath)

\* The user glob loop: each non-empty pattern against the relative path and
\* against the base name.
UserGlobExcludes(globs, relPath, baseName) ==
    \E i \in DOMAIN globs :
        /\ globs[i] # <<>>
        /\ (Match(globs[i], relPath) \/ Match(globs[i], baseName))

AuxPrefixNames ==
    { <<"R","E","A","D","M","E">>, <<"L","I","C","E","N","S","E">>
    , <<"C","O","P","Y","I","N","G">>, <<"N","O","T","I","C","E">>
    , <<"A","U","T","H","O","R","S">>, <<"C","H","A","N","G","E","L","O","G">>
    , <<"C","O","N","T","R","I","B","U","T","I","N","G">>
    , <<"M","A","N","I","F","E","S","T">> }

\* An auxiliary loop that knows extensions, globs and whole names only.
AuxWholeNameOnly(auxPattern, baseName, fileExt) ==
    IF HasPrefix(auxPattern, <<".">>)
    THEN fileExt = auxPattern
    ELSE IF ContainsCh(auxPattern, "*") \/ ContainsCh(auxPattern, "?")
    THEN Match(auxPattern, baseName)
    ELSE ToLower(baseName) = ToLower(auxPattern)

\* One iteration of the auxiliary loop.
AuxPatternMatches(auxPattern, baseName, fileExt) ==
    IF HasPrefix(auxPattern, <<".">>)
    THEN fileExt = auxPattern
    ELSE IF ContainsCh(auxPattern, "*") \/ ContainsCh(auxPattern, "?")
    THEN Match(auxPattern, baseName)
    ELSE \/ ToLower(baseName) = ToLower(auxPattern)
         \/ /\ HasPrefix(ToLower(baseName), ToLower(auxPattern))
            /\ auxPattern \in AuxPrefixNames

\* A size rule that also excludes a file of exactly the limit.
TooLargeOrEqual(maxFileSize, size) == maxFileSize > 0 /\ size >= maxFileSize

\* The size rule.
TooLarge(maxFileSize, size) == maxFileSize > 0 /\ size > maxFileSize

\* A filter that never recognises the output file.
NeverOutputFile(ff, absPath) == FALSE

\* The output file check: the path is the final output file itself.
IsOutputFile(ff, absPath) ==
    ff.absFinalOutputFilePath # <<>> /\ absPath = ff.absFinalOutputFilePath

\* A filter that takes no entry for a symbolic link.
NotSymlink(d) == FALSE

\* d.Type() & fs.ModeSymlink # 0, and info.Mode() & os.ModeSymlink # 0: both
\* come from the same lstat.
ModeSymlink(d) == d.kind = "symlink"

\* A filter whose rules for files go on to directories as well.
DirFallsThrough(d) == FALSE

\* info.IsDir() before the rules for files: a directory that reached this
\* point is not excluded.
InfoIsDir(d) == d.kind = "dir"

\* d is the directory entry: kind ("file", "dir", "symlink"), size, exec
\* (mode & 0111 # 0) and info, the outcome of d.Info(): "ok", "notexist" or
\* "err".
IsExcluded(ff, absPath, d, activeGitIgnores) ==
    LET cfg      == ff.config
        baseName == absPath[Len(absPath)]
        relPath  == RelPath(ff.basePath, absPath)
        fileExt  == ToLower(Ext(baseName))
        isDir    == d.kind = "dir"
    IN
    IF IsOutputFile(ff, absPath)
    THEN Verdict(TRUE, "nil", "output")
    ELSE IF d.info # "ok"
    THEN IF ModeSymlink(d) /\ d.info = "notexist"
         THEN Verdict(TRUE, "nil", "brokenlink")
         ELSE Verdict(FALSE, "info", "infoerr")
    ELSE IF ModeSymlink(d)
    THEN Verdict(TRUE, "nil", "symlink")
    ELSE IF isDir /\ InList(baseName, cfg.DefaultExcludeDirs \o cfg.UserExcludeDirs)
    THEN Verdict(TRUE, "SkipDir", "dirname")
    ELSE IF GitignoreExcludes(activeGitIgnores, absPath)
    THEN Verdict(TRUE, IF isDir THEN "SkipDir" ELSE "nil", "gitignore")
    ELSE IF InfoIsDir(d)
    THEN Verdict(FALSE, "nil", "none")
    ELSE IF TooLarge(cfg.MaxFileSize, d.size)
    THEN Verdict(TRUE, "nil", "size")
    ELSE IF \E i \in DOMAIN cfg.UserExcludeExts :
                cfg.UserExcludeExts[i] # <<>> /\ fileExt = cfg.UserExcludeExts[i]
    THEN Verdict(TRUE, "nil", "userext")
    ELSE IF UserGlobExcludes(cfg.UserExcludeGlobs, relPath, baseName)
    THEN Verdict(TRUE, "nil", "userglob")
    ELSE IF NotWindows /\ d.exec
    THEN Verdict(TRUE, "nil", "execperm")
    ELSE IF InList(fileExt, cfg.DefaultExecExts)
    THEN Verdict(TRUE, "nil", "execext")
    ELSE IF InList(fileExt, cfg.DefaultMediaExts)
    THEN Verdict(TRUE, "nil", "media")
    ELSE IF InList(fileExt, cfg.DefaultArchiveExts)
    THEN Verdict(TRUE, "nil", "archive")
    ELSE IF \E i \in DOMAIN cfg.DefaultLockfilePatterns :
                Match(cfg.DefaultLockfilePatterns[i], baseName)
    THEN Verdict(TRUE, "nil", "lockfile")
    ELSE IF InList(fileExt, cfg.DefaultMiscellaneousExtensions)
    THEN Verdict(TRUE, "nil", "miscext")
    ELSE IF InList(baseName, cfg.DefaultMiscellaneousFileNames)
    THEN Verdict(TRUE, "nil", "miscname")
    ELSE IF /\ cfg.SkipAuxFiles
            /\ \E i \in DOMAIN cfg.DefaultAuxExts :
                   AuxPatternMatches(cfg.DefaultAuxExts[i], baseName, fileExt)
    THEN Verdict(TRUE, "nil", "aux")
    ELSE Verdict(FALSE, "nil", "none")

----------------------------------------------------------------------------
(* Names, .gitignore lines and extensions used by the runs                 *)

\* File and directory names.
N ==
    [ gitignore     |-> <<".","g","i","t","i","g","n","o","r","e">>
    , fileA_txt     |-> <<"f","i","l","e","A",".","t","x","t">>
    , fileB_log     |-> <<"f","i","l","e","B",".","l","o","g">>
    , fileB_md      |-> <<"f","i","l","e","B",".","m","d">>
    , fileD_txt     |-> <<"f","i","l","e","D",".","t","x","t">>
    , ignored_dir   |-> <<"i","g","n","o","r","e","d","_","d","i","r">>
    , sub           |-> <<"s","u","b">>
    , empty_dir     |-> <<"e","m","p","t","y","_","d","i","r">>
    , important_log |-> <<"i","m","p","o","r","t","a","n","t",".","l","o","g">>
    , other_log     |-> <<"o","t","h","e","r",".","l","o","g">>
    , data_txt      |-> <<"d","a","t","a",".","t","x","t">>
    , x_log         |-> <<"x",".","l","o","g">>
    , cache         |-> <<"c","a","c","h","e">>
    , a_txt         |-> <<"a",".","t","x","t">>
    , out_txt       |-> <<"o","u","t",".","t","x","t">>
    , link          |-> <<"l","i","n","k">>
    , dead          |-> <<"d","e","a","d">>
    , inaccessible  |-> <<"i","n","a","c","c","e","s","s","i","b","l","e">>
    , build         |-> <<"b","u","i","l","d">>
    , main_go       |-> <<"m","a","i","n",".","g","o">>
    , dist          |-> <<"d","i","s","t">>
    , p             |-> <<"p">>
    , w             |-> <<"w">>
    , o             |-> <<"o">>
    , tmp           |-> <<"c","2","c","_","o","u","t","_","1",".","t","m","p">>
    , README_md     |-> <<"R","E","A","D","M","E",".","m","d">>
    , t             |-> <<"t">>
    , tool_AppImage |-> <<"t","o","o","l",".","A","p","p","I","m","a","g","e">>
    , assets_png      |-> <<"a","s","s","e","t","s",".","p","n","g">>
    , go_sum          |-> <<"g","o",".","s","u","m">>
    , LICENSE         |-> <<"L","I","C","E","N","S","E">>
    , LICENSE_MIT     |-> <<"L","I","C","E","N","S","E","-","M","I","T">>
    , readme_utils_go |-> <<"r","e","a","d","m","e","_","u","t","i","l","s",".","g","o">>
    , Readme_txt      |-> <<"R","e","a","d","m","e",".","t","x","t">>
    , notes_md        |-> <<"n","o","t","e","s",".","m","d">> ]

\* Lines of .gitignore files, and glob patterns.
L ==
    [ star_log      |-> <<"*",".","l","o","g">>
    , ignored_dir   |-> <<"i","g","n","o","r","e","d","_","d","i","r","/">>
    , not_important |-> <<"!","i","m","p","o","r","t","a","n","t",".","l","o","g">>
    , star_txt      |-> <<"*",".","t","x","t">>
    , cache_dir     |-> <<"c","a","c","h","e","/">>
    , not_out       |-> <<"!","o","u","t",".","t","x","t">>
    , star_md       |-> <<"*",".","m","d">> ]

\* Extensions.
E ==
    [ log |-> <<".","l","o","g">>
    , tmp |-> <<".","t","m","p">>
    , txt |-> <<".","t","x","t">> ]

----------------------------------------------------------------------------
(* The filesystem the run sees                                             *)

\* A filesystem is a function from the path of an entry relative to the
\* traversal root (<<>> is the root itself) to what lstat and readdir say
\* about it: kind, size, exec (mode & 0111 # 0), info (the outcome of
\* d.Info()), readdir (the outcome of os.ReadDir on a directory: "ok", "perm"
\* for fs.ErrPermission, "other" for any other failure) and lines (the lines of
\* a .gitignore file).

\* The children of dir.
ChildNames(f, dir) ==
    { q[Len(q)] : q \in { r \in DOMAIN f :
                            /\ Len(r) = Len(dir) + 1
                            /\ SubSeq(r, 1, Len(dir)) = dir } }

\* os.ReadDir returns the entries sorted by file name.
RECURSIVE SortedByName(_)
SortedByName(names) ==
    IF names = {} THEN <<>>
    ELSE LET m == CHOOSE x \in names : \A y \in names \ {x} : StrLess(x, y)
         IN  <<m>> \o SortedByName(names \ {m})

\* An entry as os.Stat gives it: a symbolic link appears as the directory
\* it points to.
StatFollowingLinks(f, p) ==
    IF f[p].kind = "symlink" THEN [f[p] EXCEPT !.kind = "dir"] ELSE f[p]

\* The fs.DirEntry that os.ReadDir and filepath.WalkDir hand out for a path:
\* what lstat says, so a symbolic link is a symbolic link whatever it points
\* to (a file, a directory, an ancestor, nothing).
DirEntryOf(f, p) == f[p]

\* os.ReadDir: the sorted names, or the error of a directory that could not
\* be opened (no entry is returned with it).
ReadDir(f, dir) ==
    IF f[dir].readdir = "ok"
    THEN [err |-> "nil", names |-> SortedByName(ChildNames(f, dir))]
    ELSE [err |-> f[dir].readdir, names |-> <<>>]

----------------------------------------------------------------------------
(* processor: the .gitignore matcher cache                                 *)

\* The cached nil, and a compiled matcher.  A matcher is a pointer in the
\* code; the directory it was compiled for gives it its identity.
NoMatcher == [nil |-> TRUE, dir |-> <<>>, patterns |-> <<>>]
Matcher(dir, patterns) == [nil |-> FALSE, dir |-> dir, patterns |-> patterns]

\* What compileAndCacheGitIgnore finds on disk on a cache miss: os.Stat of
\* dir/.gitignore, then gitignore.CompileIgnoreFile.  A directory that cannot
\* be searched, a missing file and a file that cannot be read as a file all
\* end in the cached nil.
CompileFromDisk(f, dir) ==
    LET gi == dir \o <<N.gitignore>>
    IN  IF f[dir].readdir = "perm" \/ gi \notin DOMAIN f THEN NoMatcher
        ELSE IF f[gi].kind = "file"
        THEN Matcher(dir, CompileIgnoreFile(f[gi].lines))
        ELSE NoMatcher

\* A compileAndCacheGitIgnore without the cache lookup: every call reads the
\* directory again and overwrites the entry.
RecompileEveryCall(cache, f, dir) ==
    [matcher |-> CompileFromDisk(f, dir),
     cache   |-> (dir :> CompileFromDisk(f, dir)) @@ cache]

\* compileAndCacheGitIgnore: the matcher returned and the cache afterwards.
compileAndCacheGitIgnore(cache, f, dir) ==
    IF dir \in DOMAIN cache
    THEN [matcher |-> cache[dir], cache |-> cache]
    ELSE [matcher |-> CompileFromDisk(f, dir),
          cache   |-> (dir :> CompileFromDisk(f, dir)) @@ cache]

----------------------------------------------------------------------------
(* processor: TreeBuilder                                                  *)

\* A less function that orders the entries by name alone, byte-wise.
TreeLessByName(f, dir, a, b) == StrLess(a, b)

\* A less function with the directories first and the names compared as
\* they are, without lower-casing.
TreeLessCaseSensitive(f, dir, a, b) ==
    LET aDir == f[dir \o <<a>>].kind = "dir"
        bDir == f[dir \o <<b>>].kind = "dir"
    IN  IF aDir # bDir THEN aDir ELSE StrLess(a, b)

\* The less function given to sort.Slice: directories first, then the
\* lower-cased names.
TreeLess(f, dir, a, b) ==
    LET aDir == f[dir \o <<a>>].kind = "dir"
        bDir == f[dir \o <<b>>].kind = "dir"
    IN  IF aDir # bDir THEN aDir ELSE StrLess(ToLower(a), ToLower(b))

\* sort.Slice on fewer than 12 entries is an insertion sort: each entry moves
\* left while it is less than its predecessor.  (The sort goes on from the
\* one slice an insertion leaves: the element of a singleton set.)
RECURSIVE TreeInsert(_, _, _, _)
TreeInsert(f, dir, sorted, x) ==
    IF sorted = <<>> THEN <<x>>
    ELSE LET last == sorted[Len(sorted)]
         IN  IF TreeLess(f, dir, x, last)
             THEN TreeInsert(f, dir, SubSeq(sorted, 1, Len(sorted) - 1), x) \o <<last>>
             ELSE sorted \o <<x>>

RECURSIVE TreeSortFrom(_, _, _, _)
TreeSortFrom(f, dir, names, sorted) ==
    IF names = <<>> THEN sorted
    ELSE CHOOSE result \in
             { TreeSortFrom(f, dir, Tail(names), inserted) :
                   inserted \in {TreeInsert(f, dir, sorted, Head(names))} } : TRUE

TreeSort(f, dir, names) == TreeSortFrom(f, dir, names, <<>>)

\* The stack a directory hands to its entries: the parent's stack, extended by
\* the directory's own matcher unless that is nil or already the last element.
ExtendIgnores(parentActiveIgnores, currentDirGitIgnore) ==
    IF currentDirGitIgnore.nil THEN parentActiveIgnores
    ELSE IF /\ parentActiveIgnores # <<>>
            /\ parentActiveIgnores[Len(parentActiveIgnores)] = currentDirGitIgnore
    THEN parentActiveIgnores
    ELSE Append(parentActiveIgnores, currentDirGitIgnore)

\* The start of buildNodeRecursive(dir, node, parentActiveIgnores): ReadDir,
\* sort, compile the directory's own .gitignore.  Gives the frame of the call
\* (none when ReadDir fails: the call returns nil at once) and the cache.
EnterDir(cache, f, dir, parentActiveIgnores) ==
    LET rd == ReadDir(f, dir)
        cc == compileAndCacheGitIgnore(cache, f, dir)
    IN  IF rd.err # "nil"
        THEN [frames |-> <<>>, cache |-> cache]
        ELSE [frames |-> << [dir     |-> dir,
                             entries |-> TreeSort(f, dir, rd.names),
                             ignores |-> ExtendIgnores(parentActiveIgnores, cc.matcher)] >>,
              cache  |-> cc.cache]

\* Return from every call whose loop has no entry left.
RECURSIVE PopDone(_)
PopDone(stack) ==
    IF stack # <<>> /\ stack[Len(stack)].entries = <<>>
    THEN PopDone(SubSeq(stack, 1, Len(stack) - 1))
    ELSE stack

\* Whether an entry is kept by a caller of IsExcluded: no error, not excluded.
Kept(verdict) == verdict.err = "nil" /\ ~verdict.excluded

----------------------------------------------------------------------------
(* processor: the filepath.WalkDir callback of Process                     *)

\* The directories from currentDir up to the base path, deepest first: the
\* loop that collects pathStack.  The root entry itself, when it is not a
\* directory, has its parent as currentDir, which is outside the base path.
WalkChain(path, isDir) ==
    IF path = <<>> /\ ~isDir THEN <<>>
    ELSE LET currentDir == IF isDir THEN path ELSE SubSeq(path, 1, Len(path) - 1)
         IN  [k \in 1..(Len(currentDir) + 1) |-> SubSeq(currentDir, 1, Len(currentDir) + 1 - k)]

\* compileAndCacheGitIgnore along the chain: the cache afterwards.
RECURSIVE CacheAlong(_, _, _)
CacheAlong(cache, f, chain) ==
    IF chain = <<>> THEN cache
    ELSE CacheAlong(compileAndCacheGitIgnore(cache, f, Head(chain)).cache, f, Tail(chain))

\* currentActiveIgnores: the non-nil matchers of the chain, root-most first.
RECURSIVE ActiveAlong(_, _, _)
ActiveAlong(cache, f, chain) ==
    IF chain = <<>> THEN <<>>
    ELSE LET cc == compileAndCacheGitIgnore(cache, f, Head(chain))
             up == ActiveAlong(cc.cache, f, Tail(chain))
         IN  IF cc.matcher.nil THEN up ELSE Append(up, cc.matcher)

\* A callback that returns nil where the filter asked to skip a directory:
\* WalkDir goes on into it.
CallbackNeverSkips(verdict, d) ==
    [ret |-> "nil", emit |-> Kept(verdict) /\ d.kind # "dir"]

\* What the callback returns for (path, d, nil): "nil", "SkipDir", and whether
\* it wrote a content block.
CallbackReturn(verdict, d) ==
    IF verdict.err = "SkipDir" THEN [ret |-> "SkipDir", emit |-> FALSE]
    ELSE IF verdict.err # "nil" THEN [ret |-> "nil", emit |-> FALSE]
    ELSE IF verdict.excluded
    THEN [ret |-> IF d.kind = "dir" THEN "SkipDir" ELSE "nil", emit |-> FALSE]
    ELSE [ret |-> "nil", emit |-> d.kind # "dir"]

\* What the callback returns for (path, d, walkPathErr) after ReadDir failed.
CallbackOnError(d, walkPathErr) ==
    IF d.kind = "dir" /\ walkPathErr = "perm" THEN "SkipDir" ELSE "nil"

----------------------------------------------------------------------------
(* The inputs of a run: directory trees, Config, environment               *)

\* File sizes run over 0..MaxSize; SizeLimit is the positive MaxFileSize.
MaxSize == 3
SizeLimit == 2

Entry(kind, size, exec) ==
    [kind |-> kind, size |-> size, exec |-> exec,
     info |-> "ok", readdir |-> "ok", lines |-> <<>>]

File == Entry("file", 1, FALSE)
Dir == Entry("dir", MaxSize, TRUE)
Symlink == Entry("symlink", 1, TRUE)
IgnoreFile(lines) == [File EXCEPT !.lines = lines]

\* TestProcess_LocalPath_Basic: a file, a subdirectory, an empty directory.
T_Basic ==
    (<<>> :> Dir) @@ (<<N.fileA_txt>> :> File) @@ (<<N.sub>> :> Dir)
    @@ (<<N.sub, N.fileB_md>> :> File) @@ (<<N.empty_dir>> :> Dir)

\* TestProcess_LocalPath_Gitignore_Basic.
T_GitignoreBasic ==
    (<<>> :> Dir) @@ (<<N.gitignore>> :> IgnoreFile(<<L.star_log, L.ignored_dir>>))
    @@ (<<N.fileA_txt>> :> File) @@ (<<N.fileB_log>> :> File)
    @@ (<<N.ignored_dir>> :> Dir) @@ (<<N.ignored_dir, N.fileD_txt>> :> File)

\* TestProcess_LocalPath_Gitignore_Nested, with the files of the override
\* scenario.
T_Nested ==
    (<<>> :> Dir) @@ (<<N.gitignore>> :> IgnoreFile(<<L.star_log>>))
    @@ (<<N.x_log>> :> File) @@ (<<N.sub>> :> Dir)
    @@ (<<N.sub, N.gitignore>> :> IgnoreFile(<<L.not_important, L.star_txt>>))
    @@ (<<N.sub, N.important_log>> :> File) @@ (<<N.sub, N.other_log>> :> File)
    @@ (<<N.sub, N.data_txt>> :> File) @@ (<<N.sub, N.fileB_md>> :> File)

\* TestProcess_LocalPath_Gitignore_DirOnlyRule, with a regular file named
\* cache in a subdirectory.
T_DirOnly ==
    (<<>> :> Dir) @@ (<<N.gitignore>> :> IgnoreFile(<<L.cache_dir>>))
    @@ (<<N.fileA_txt>> :> File) @@ (<<N.cache>> :> Dir)
    @@ (<<N.cache, N.a_txt>> :> File) @@ (<<N.sub>> :> Dir)
    @@ (<<N.sub, N.cache>> :> File)

\* Symbolic links: one to a directory of the tree, one whose target is gone.
T_Links ==
    (<<>> :> Dir) @@ (<<N.a_txt>> :> File) @@ (<<N.link>> :> Symlink)
    @@ (<<N.dead>> :> Symlink) @@ (<<N.sub>> :> Dir)
    @@ (<<N.sub, N.fileB_md>> :> File) @@ (<<N.sub, N.link>> :> Symlink)

\* TestProcess_Error_WalkDirFails_AccessDeniedToSubDir.
T_AccessDenied ==
    (<<>> :> Dir) @@ (<<N.fileA_txt>> :> File)
    @@ (<<N.inaccessible>> :> [Dir EXCEPT !.readdir = "perm"])
    @@ (<<N.inaccessible, N.fileD_txt>> :> File) @@ (<<N.sub>> :> Dir)
    @@ (<<N.sub, N.fileB_md>> :> File)

\* A directory with an excluded name, a regular file with the same name.
T_ExcludedDirs ==
    (<<>> :> Dir) @@ (<<N.main_go>> :> File) @@ (<<N.build>> :> Dir)
    @@ (<<N.build, N.main_go>> :> File) @@ (<<N.sub>> :> Dir)
    @@ (<<N.sub, N.build>> :> File)

\* TestProcess_GitURL_Success: README.md and main.go, and a directory.
T_Repo ==
    (<<>> :> Dir) @@ (<<N.README_md>> :> File) @@ (<<N.main_go>> :> File)
    @@ (<<N.sub>> :> Dir) @@ (<<N.sub, N.a_txt>> :> File)

\* A root .gitignore that negates the name of the output file.
T_Negate ==
    (<<>> :> Dir) @@ (<<N.gitignore>> :> IgnoreFile(<<L.not_out>>))
    @@ (<<N.a_txt>> :> File) @@ (<<N.sub>> :> Dir) @@ (<<N.sub, N.a_txt>> :> File)

\* A root .gitignore whose line names a directory without a slash.
T_IgnoredDir ==
    (<<>> :> Dir) @@ (<<N.gitignore>> :> IgnoreFile(<<N.cache>>))
    @@ (<<N.a_txt>> :> File) @@ (<<N.cache>> :> Dir)
    @@ (<<N.cache, N.a_txt>> :> File)

Scenarios ==
    {T_Basic, T_GitignoreBasic, T_Nested, T_DirOnly, T_Links, T_AccessDenied,
     T_ExcludedDirs, T_Repo, T_Negate, T_IgnoredDir}

\* What may already lie at the output path.
OutEntries ==
    {File, Symlink, [File EXCEPT !.exec = TRUE], [File EXCEPT !.info = "err"]}
    \cup {[File EXCEPT !.size = s] : s \in {0, MaxSize}}

\* The trees that differ from f in one attribute of one entry.
Perturb(f) ==
    LET below == DOMAIN f \ {<<>>}
        files == {p \in below : f[p].kind = "file"}
        dirs  == {p \in DOMAIN f : f[p].kind = "dir"}
    IN  {f}
        \cup {[f EXCEPT ![p].size = s] : p \in files, s \in 0..MaxSize}
        \cup {[f EXCEPT ![p].exec = TRUE] : p \in files}
        \cup {[f EXCEPT ![p].info = i] : p \in below, i \in {"notexist", "err"}}
        \cup {[f EXCEPT ![p].readdir = r] : p \in dirs, r \in {"perm", "other"}}
        \cup {[f EXCEPT ![<<>>].kind = k] : k \in {"symlink", "file"}}
        \cup {[f EXCEPT ![<<>>].info = "notexist"]}

\* Values given on the command line.
A ==
    [ ext_LOG   |-> <<".","L","O","G">>
    , ext_TXT   |-> <<" ","T","X","T">>
    , src_http |-> <<"h","t","t","p",":","/","/","e","x","a","m","p","l","e",".","c","o","m","/","r","e","p","o",".","g","i","t">>
    , src_https |-> <<"h","t","t","p","s",":","/","/","e","x","a","m","p","l","e",".","c","o","m","/","r","e","p","o">>
    , src_git_at |-> <<"g","i","t","@","g","i","t","h","u","b",".","c","o","m",":","u","s","e","r","/","r","e","p","o",".","g","i","t">>
    , src_ssh |-> <<"s","s","h",":","/","/","g","i","t","@","g","i","t","h","u","b",".","c","o","m","/","u","s","e","r","/","r","e","p","o",".","g","i","t">>
    , src_local_git |-> <<"/","p","a","t","h","/","t","o","/","m","y","r","e","p","o",".","g","i","t">>
    , src_local |-> <<"/","p","a","t","h","/","t","o","/","m","y","r","e","p","o">>
    , src_scp |-> <<"u","s","e","r","@","h","o","s","t",":","p","r","o","j","e","c","t",".","g","i","t">>
    , src_dot_git |-> <<".","g","i","t">>
    , src_random |-> <<"r","a","n","d","o","m","s","t","r","i","n","g">>
    , src_slash |-> <<"h","t","t","p","s",":","/","/","e","x","a","m","p","l","e",".","c","o","m","/","m","y","r","e","p","o","/">>
    , src_two_git |-> <<"h","t","t","p","s",":","/","/","e","x","a","m","p","l","e",".","c","o","m","/","m","y",".","r","e","p","o",".","g","i","t","/","a","c","t","u","a","l",".","g","i","t">>
    , src_domain |-> <<"h","t","t","p","s",":","/","/","e","x","a","m","p","l","e",".","c","o","m">>
    , src_host |-> <<"g","i","t","@","g","i","t","h","u","b",".","c","o","m",":">>
    , src_slashes |-> <<"h","t","t","p","s",":","/","/","/","/","/">>
    , src_dot |-> <<".">>
    , size_default |-> <<"1","M","B">>
    , size_0 |-> <<"0">>
    , size_2 |-> <<"2">>
    , size_1024 |-> <<"1","0","2","4">>
    , size_2KB |-> <<"2","K","B">>
    , size_frac |-> <<"1",".","5","K","B">>
    , size_space |-> <<"5"," ","M","B">>
    , size_lower |-> <<"3","g","b">>
    , size_tenth |-> <<"0",".","1","K","B">>
    , size_B |-> <<"1","0","2","4",".","0","B">>
    , size_empty |-> <<>>
    , size_abc |-> <<"a","b","c">>
    , size_neg |-> <<"-","1","M","B">>
    , size_dots |-> <<"1",".","2",".","3","M","B">>
    , size_unit |-> <<"K","B">>
    , size_maxTB |-> <<"8","3","8","8","6","0","7","T","B">>
    , size_overTB |-> <<"8","3","8","8","6","0","8","T","B">>
    , size_over2TB |-> <<"8","3","8","8","6","0","9","T","B">>
    , size_max |-> <<"9","2","2","3","3","7","2","0","3","6","8","5","4","7","7","5","8","0","7">>
    , size_over |-> <<"9","2","2","3","3","7","2","0","3","6","8","5","4","7","7","5","8","0","8">>
    , size_maxB |-> <<"9","2","2","3","3","7","2","0","3","6","8","5","4","7","7","5","8","0","7","B">>
    , size_2p53 |-> <<"9","0","0","7","1","9","9","2","5","4","7","4","0","9","9","2","B">>
    , size_2p53_1 |-> <<"9","0","0","7","1","9","9","2","5","4","7","4","0","9","9","3","B">>
    , size_2p53_1plain |-> <<"9","0","0","7","1","9","9","2","5","4","7","4","0","9","9","3">>
    , size_KBover |-> <<"9","0","0","7","1","9","9","2","5","4","7","4","0","9","9","3","K","B">>
    , size_nearKB |-> <<"9","0","0","7","1","9","9","2","5","4","7","4","0","K","B">> ]

\* RunE on the parts of --exclude-exts: each is trimmed and given a leading
\* dot unless it has one or is empty; the letters stay as typed.
excludeExts(parts) ==
    [ i \in DOMAIN parts |->
        LET trimmedExt == TrimSpace(parts[i])
        IN  IF ~HasPrefix(trimmedExt, <<".">>) /\ trimmedExt # <<>>
            THEN <<".">> \o trimmedExt
            ELSE trimmedExt ]

\* cmd/root.go: the Config of a run without flags; MaxFileSize is the parsed
\* --max-file-size.
DefaultConfig ==
    [ SourcePath                     |-> N.p
    , IncludeTree                    |-> TRUE
    , SkipAuxFiles                   |-> FALSE
    , UserExcludeDirs                |-> <<>>
    , UserExcludeExts                |-> <<>>
    , UserExcludeGlobs               |-> <<>>
    , MaxFileSize                    |-> SizeLimit
    , DefaultExcludeDirs             |-> GetDefaultExcludedDirs
    , DefaultMediaExts               |-> GetDefaultMediaExtensions
    , DefaultArchiveExts             |-> GetDefaultArchiveExtensions
    , DefaultExecExts                |-> GetDefaultExecutableExtensions
    , DefaultLockfilePatterns        |-> GetDefaultLockfilePatterns
    , DefaultMiscellaneousFileNames  |-> GetDefaultMiscellaneousFileNames
    , DefaultMiscellaneousExtensions |-> GetDefaultMiscellaneousExtensions
    , DefaultAuxExts                 |-> GetDefaultAuxFileExtensions ]

\* removeStringFromSlice of the tests.
RECURSIVE RemoveFromList(_, _)
RemoveFromList(list, x) ==
    IF list = <<>> THEN <<>>
    ELSE IF Head(list) = x THEN RemoveFromList(Tail(list), x)
    ELSE <<Head(list)>> \o RemoveFromList(Tail(list), x)

Configs ==
    { DefaultConfig
    , [DefaultConfig EXCEPT !.MaxFileSize = 0]
    , [DefaultConfig EXCEPT !.SkipAuxFiles = TRUE]
    , [DefaultConfig EXCEPT !.IncludeTree = FALSE]
    , [DefaultConfig EXCEPT !.UserExcludeDirs = <<N.sub>>]
    , [DefaultConfig EXCEPT !.UserExcludeExts = <<E.txt>>]
    , [DefaultConfig EXCEPT !.UserExcludeGlobs = <<L.star_md>>]
    , [DefaultConfig EXCEPT !.UserExcludeExts = excludeExts(<<A.ext_LOG, A.ext_TXT>>)]
    , [DefaultConfig EXCEPT !.UserExcludeGlobs = <<N.sub>>]
    , [DefaultConfig EXCEPT !.DefaultMiscellaneousExtensions =
           RemoveFromList(RemoveFromList(GetDefaultMiscellaneousExtensions, E.log), E.tmp)]
    , [DefaultConfig EXCEPT !.DefaultMiscellaneousExtensions =
           RemoveFromList(GetDefaultMiscellaneousExtensions, N.gitignore)] }

\* The environment of a run: whether SourcePath is a Git URL, the base name of
\* the root, where the output file lies (outside the root, or in directory
\* outDir of it) and whether a file already exists at the output path.
\* cwdGone: the output path is relative (the default <name>.txt) and the
\* working directory is gone by the time the path is made absolute, so that
\* os.Getwd and with it filepath.Abs fail.
Env(src, rootName, outInside, outDir, outOld) ==
    [src |-> src, rootName |-> rootName, outInside |-> outInside,
     outDir |-> outDir, outOld |-> outOld, cwdGone |-> FALSE]

DefaultEnv == Env("local", N.p, FALSE, <<>>, FALSE)

Envs ==
    { Env(src, rootName, FALSE, <<>>, outOld) :
          src \in {"local", "url"}, rootName \in {N.p, N.dist}, outOld \in BOOLEAN }
    \cup { Env("local", N.p, TRUE, outDir, outOld) :
          outDir \in {<<>>, <<N.sub>>}, outOld \in BOOLEAN }
    \cup { [Env(src, N.p, FALSE, <<>>, FALSE) EXCEPT !.cwdGone = TRUE] :
          src \in {"local", "url"} }

\* The SourcePath of a run in environment e: a URL of the repository, or the
\* root directory named relative to the working directory.
SourceOf(e) ==
    IF e.src = "url"
    THEN U.https \o <<"e","x","a","m","p","l","e",".","c","o","m","/","u","/">>
            \o e.rootName \o U.dot_git
    ELSE e.rootName

\* filepath.Abs of a local source, as basePath: the working directory w for
\* "" and ".", else w joined with the source; of a source with directories
\* in it only the last name is kept.
LocalBasePath(source) ==
    IF source \in {<<>>, <<".">>} THEN <<N.w>> ELSE <<N.w, LastPart(source)>>

----------------------------------------------------------------------------
(* Processor.Process as a state machine                                    *)

VARIABLES
    fs,               \* the directory tree under the root, as the run sees it
    env,              \* the environment of the run
    cfg,              \* Processor.config
    pc,               \* where Process stands
    result,           \* what Process returned: "none" while it runs
    basePath,         \* Processor.basePath
    isTempRepo,       \* Processor.isTempRepo
    tempRepoDir,      \* the clone's parent directory: "none", "present", "removed"
    finalOutputFile,  \* Processor.finalOutputFile
    gitIgnoreCache,   \* Processor.gitIgnoreCache, keyed by directory
    tempOut,          \* the temporary output file: "none", "open", "closed", "renamed", "removed"
    finalOut,         \* the file at the output path: "absent", "old", "new", "partial"
    tstack,           \* the pending calls of buildNodeRecursive
    tree,             \* the nodes appended to the tree, in depth-first order
    treeWritten,      \* whether the tree string went to the writer
    wstack,           \* the pending directory listings of filepath.WalkDir
    content,          \* the relative paths of the content blocks written, in order
    call,             \* the last call of IsExcluded
    verdict,          \* what that call returned
    cmdline,          \* the argument and the flags of the command line
    maxFileSize,      \* what ParseFileSize returned to RunE
    file,             \* the accepted file the callback copies: its path and bytes
    block             \* the text the callback wrote for that file

vars ==
    <<fs, env, cfg, pc, result, basePath, isTempRepo, tempRepoDir,
      finalOutputFile, gitIgnoreCache, tempOut, finalOut, tstack, tree,
      treeWritten, wstack, content, call, verdict, cmdline, maxFileSize,
      file, block>>

\* A Processor built by New(cfg) directly, as the processor tests do.
NoCmdline == [source |-> <<>>, maxFileSizeStr |-> <<>>, tree |-> "unset",
              noTree |-> "unset", utils |-> "none"]
NotParsed == [val |-> <<>>, neg |-> FALSE, err |-> "unparsed"]

\* No file is being copied.
NoFile == [path |-> <<>>, bytes |-> <<>>]

\* Before the first call of IsExcluded.
NoCall == [site |-> "none", path |-> <<>>, d |-> Dir, ignores |-> <<>>]
NoVerdict == Verdict(FALSE, "nil", "nocall")

\* The absolute path of an entry of the tree.
AbsPath(rel) == basePath \o rel

\* The FileFilter built by determineOutputFileAndInitFilter.
Filter == [config |-> cfg, basePath |-> basePath,
           absFinalOutputFilePath |-> finalOutputFile]

\* The state after New(cfg): nothing has run yet.
Fresh ==
    /\ result = "none"
    /\ basePath = <<>>
    /\ isTempRepo = FALSE
    /\ tempRepoDir = "none"
    /\ finalOutputFile = <<>>
    /\ gitIgnoreCache = <<>>
    /\ tempOut = "none"
    /\ tstack = <<>>
    /\ tree = <<>>
    /\ treeWritten = FALSE
    /\ wstack = <<>>
    /\ content = <<>>
    /\ call = NoCall
    /\ verdict = NoVerdict

Init ==
    /\ pc = "start"
    /\ Fresh
    /\ cmdline = NoCmdline
    /\ maxFileSize = NotParsed
    /\ file = NoFile
    /\ block = <<>>
    /\ \E base \in Scenarios, c \in Configs, e \in Envs :
         \E f \in Perturb(base), o \in OutEntries :
            /\ f = base \/ (c = DefaultConfig /\ e = DefaultEnv)
            /\ o = File \/ (e.outInside /\ e.outOld /\ f = base /\ c = DefaultConfig)
            /\ e.outInside => (e.outDir \in DOMAIN f /\ f[e.outDir].kind = "dir")
            /\ e.src = "url" => f[<<>>] = Dir
            /\ cfg = [c EXCEPT !.SourcePath = SourceOf(e)]
            /\ env = e
            /\ fs = IF e.outInside /\ e.outOld
                    THEN (Append(e.outDir, N.out_txt) :> o) @@ f
                    ELSE f
            /\ finalOut = IF e.outOld THEN "old" ELSE "absent"

\* The deferred functions of Process run on every return after they were
\* registered: the temporary clone is removed, and the temporary output file
\* is removed unless successfulWrite was set.
Return(res, tempAfter) ==
    /\ pc' = "done"
    /\ result' = res
    /\ tempOut' = tempAfter
    /\ tempRepoDir' = IF isTempRepo THEN "removed" ELSE tempRepoDir

\* Steps 1 and 2 of Process: setupInitialPaths, then
\* determineOutputFileAndInitFilter.  A clone may fail; a local source must
\* exist and be a directory (os.Stat follows a symbolic link at the root).
\* When filepath.Abs of the output path fails, step 2 returns its error; the
\* cleanup of the clone is deferred only after step 2.
Setup ==
    /\ pc = "start"
    /\ UNCHANGED <<cmdline, maxFileSize, file, block>>
    /\ \/ /\ IsGitURL(cfg.SourcePath)
          /\ \E cloned \in BOOLEAN :
                IF cloned
                THEN /\ basePath' = <<N.t, getRepoNameFromURL(cfg.SourcePath)>>
                     /\ isTempRepo' = TRUE
                     /\ tempRepoDir' = "present"
                     /\ IF env.cwdGone
                        THEN /\ pc' = "done"
                             /\ result' = "error"
                             /\ UNCHANGED finalOutputFile
                        ELSE /\ finalOutputFile' = <<N.o, N.out_txt>>
                             /\ pc' = "temp"
                             /\ UNCHANGED result
                ELSE /\ pc' = "done"
                     /\ result' = "error"
                     /\ UNCHANGED <<basePath, isTempRepo, tempRepoDir, finalOutputFile>>
       \/ /\ ~IsGitURL(cfg.SourcePath)
          /\ IF fs[<<>>].info # "ok" \/ fs[<<>>].kind = "file" \/ env.cwdGone
             THEN /\ pc' = "done"
                  /\ result' = "error"
                  /\ UNCHANGED <<basePath, isTempRepo, tempRepoDir, finalOutputFile>>
             ELSE /\ basePath' = LocalBasePath(cfg.SourcePath)
                  /\ isTempRepo' = FALSE
                  /\ finalOutputFile' =
                         IF env.outInside
                         THEN LocalBasePath(cfg.SourcePath) \o Append(env.outDir, N.out_txt)
                         ELSE <<N.o, N.out_txt>>
                  /\ pc' = "temp"
                  /\ UNCHANGED <<result, tempRepoDir>>
    /\ UNCHANGED <<fs, env, cfg, gitIgnoreCache, tempOut, finalOut, tstack, tree,
                   treeWritten, wstack, content, call, verdict>>

\* os.CreateTemp in the directory of the output file.  When that directory is
\* inside the root, the new empty file is an entry of the tree from now on.
CreateTemp ==
    /\ pc = "temp"
    /\ UNCHANGED <<cmdline, maxFileSize, file, block>>
    /\ \E created \in BOOLEAN :
          IF created
          THEN /\ tempOut' = "open"
               /\ fs' = IF env.outInside
                        THEN (Append(env.outDir, N.tmp) :> [File EXCEPT !.size = 0]) @@ fs
                        ELSE fs
               /\ pc' = IF cfg.IncludeTree THEN "tree" ELSE "content"
               /\ UNCHANGED <<result, tempRepoDir>>
          ELSE /\ Return("error", tempOut)
               /\ UNCHANGED fs
    /\ UNCHANGED <<env, cfg, basePath, isTempRepo, finalOutputFile, gitIgnoreCache,
                   finalOut, tstack, tree, treeWritten, wstack, content, call, verdict>>

\* A single stack shared by all levels: entering a directory pushes its
\* matcher on the caller's stack as well, and nothing pops it.
ReplaceTopShared(stack, frames) ==
    SubSeq(stack, 1, Len(stack) - 1)
    \o (IF Len(frames) = 2 /\ "ignores" \in DOMAIN frames[2]
        THEN <<[frames[1] EXCEPT !.ignores = frames[2].ignores], frames[2]>>
        ELSE frames)

\* The stack with its top frame replaced by the frames given.
ReplaceTop(stack, frames) == SubSeq(stack, 1, Len(stack) - 1) \o frames

\* BuildTreeString up to the loop of the root's buildNodeRecursive: the root
\* node is created without asking the filter, the root's .gitignore is
\* compiled, the root is listed.
TreeStart ==
    /\ pc = "tree"
    /\ UNCHANGED <<cmdline, maxFileSize, file, block>>
    /\ LET cc      == compileAndCacheGitIgnore(gitIgnoreCache, fs, <<>>)
           initial == IF cc.matcher.nil THEN <<>> ELSE <<cc.matcher>>
           ed      == EnterDir(cc.cache, fs, <<>>, initial)
       IN  /\ gitIgnoreCache' = ed.cache
           /\ tstack' = PopDone(ed.frames)
           /\ pc' = IF PopDone(ed.frames) = <<>> THEN "treedone" ELSE "treewalk"
    /\ UNCHANGED <<fs, env, cfg, result, basePath, isTempRepo, tempRepoDir,
                   finalOutputFile, tempOut, finalOut, tree, treeWritten, wstack,
                   content, call, verdict>>

\* One iteration of the loop of buildNodeRecursive: the filter decides the
\* entry; a kept entry becomes a node; a kept directory is entered.
TreeStep ==
    /\ pc = "treewalk"
    /\ UNCHANGED <<cmdline, maxFileSize, file, block>>
    /\ LET top  == tstack[Len(tstack)]
           p    == Append(top.dir, Head(top.entries))
           d    == DirEntryOf(fs, p)
           v    == IsExcluded(Filter, AbsPath(p), d, top.ignores)
           rest == [top EXCEPT !.entries = Tail(@)]
           ed   == IF Kept(v) /\ d.kind = "dir"
                   THEN EnterDir(gitIgnoreCache, fs, p, top.ignores)
                   ELSE [frames |-> <<>>, cache |-> gitIgnoreCache]
           next == PopDone(ReplaceTop(tstack, <<rest>> \o ed.frames))
       IN  /\ call' = [site |-> "tree", path |-> p, d |-> d, ignores |-> top.ignores]
           /\ verdict' = v
           /\ tree' = IF Kept(v)
                      THEN Append(tree, [path |-> p, isDir |-> d.kind = "dir"])
                      ELSE tree
           /\ gitIgnoreCache' = ed.cache
           /\ tstack' = next
           /\ pc' = IF next = <<>> THEN "treedone" ELSE "treewalk"
    /\ UNCHANGED <<fs, env, cfg, result, basePath, isTempRepo, tempRepoDir,
                   finalOutputFile, tempOut, finalOut, treeWritten, wstack,
                   content>>

\* BuildTreeString returned: the tree string goes to the writer.
WriteTree ==
    /\ pc = "treedone"
    /\ UNCHANGED <<cmdline, maxFileSize, file, block>>
    /\ \E wrote \in BOOLEAN :
          IF wrote
          THEN /\ treeWritten' = TRUE
               /\ pc' = "content"
               /\ UNCHANGED <<result, tempOut, tempRepoDir>>
          ELSE /\ Return("error", "removed")
               /\ UNCHANGED treeWritten
    /\ UNCHANGED <<fs, env, cfg, basePath, isTempRepo, finalOutputFile,
                   gitIgnoreCache, finalOut, tstack, tree, wstack, content, call,
                   verdict>>

\* The root's .gitignore is compiled, then filepath.WalkDir starts with the
\* root itself as its first entry.
WalkStart ==
    /\ pc = "content"
    /\ UNCHANGED <<cmdline, maxFileSize, file, block>>
    /\ gitIgnoreCache' = compileAndCacheGitIgnore(gitIgnoreCache, fs, <<>>).cache
    /\ wstack' = << [entries |-> << <<>> >>] >>
    /\ pc' = "walk"
    /\ UNCHANGED <<fs, env, cfg, result, basePath, isTempRepo, tempRepoDir,
                   finalOutputFile, tempOut, finalOut, tstack, tree, treeWritten,
                   content, call, verdict>>

\* One entry of filepath.WalkDir: the callback on the entry, and for a
\* directory the callback lets through, its listing (with a second callback
\* when the listing fails).  SkipDir for a directory skips it; SkipDir for
\* another entry skips the rest of its directory.
WalkStep ==
    /\ pc = "walk"
    /\ UNCHANGED <<cmdline, maxFileSize, file, block>>
    /\ LET top    == wstack[Len(wstack)]
           p      == Head(top.entries)
           d      == DirEntryOf(fs, p)
           isDir  == d.kind = "dir"
           chain  == WalkChain(p, isDir)
           active == ActiveAlong(gitIgnoreCache, fs, chain)
           v      == IsExcluded(Filter, AbsPath(p), d, active)
           cb     == CallbackReturn(v, d)
           rd     == ReadDir(fs, p)
           listed == isDir /\ cb.ret = "nil"
           ret    == IF listed /\ rd.err # "nil"
                     THEN CallbackOnError(d, rd.err)
                     ELSE cb.ret
           kids   == IF listed /\ rd.err = "nil"
                     THEN [i \in DOMAIN rd.names |-> Append(p, rd.names[i])]
                     ELSE <<>>
           rest   == IF ret = "SkipDir" /\ ~isDir
                     THEN [top EXCEPT !.entries = <<>>]
                     ELSE [top EXCEPT !.entries = Tail(@)]
           next   == PopDone(ReplaceTop(wstack, <<rest, [entries |-> kids]>>))
       IN  /\ call' = [site |-> "walk", path |-> p, d |-> d, ignores |-> active]
           /\ verdict' = v
           /\ gitIgnoreCache' = CacheAlong(gitIgnoreCache, fs, chain)
           /\ \E wrote \in (IF cb.emit THEN BOOLEAN ELSE {TRUE}) :
                 IF wrote
                 THEN /\ content' = IF cb.emit THEN Append(content, p) ELSE content
                      /\ wstack' = next
                      /\ pc' = IF next = <<>> THEN "finish" ELSE "walk"
                      /\ UNCHANGED <<result, tempOut, tempRepoDir>>
                 ELSE /\ Return("error", "removed")
                      /\ UNCHANGED <<content, wstack>>
    /\ UNCHANGED <<fs, env, cfg, basePath, isTempRepo, finalOutputFile, finalOut,
                   tstack, tree, treeWritten>>

\* After the walk: Flush, Close, Rename, and the copy fallback when the
\* rename fails.  Each step may fail.
Finish ==
    /\ pc = "finish"
    /\ UNCHANGED <<cmdline, maxFileSize, file, block>>
    /\ \E outcome \in {"flush", "close", "renamed", "open", "create", "copy",
                       "copied", "copiedkept"} :
          CASE outcome \in {"flush", "close", "open", "create"} ->
                  /\ Return("error", "removed")
                  /\ UNCHANGED finalOut
            [] outcome = "copy" ->
                  /\ Return("error", "removed")
                  /\ finalOut' = "partial"
            [] outcome = "renamed" ->
                  /\ Return("ok", "renamed")
                  /\ finalOut' = "new"
            [] outcome = "copied" ->
                  /\ Return("ok", "removed")
                  /\ finalOut' = "new"
            [] outcome = "copiedkept" ->
                  /\ Return("ok", "closed")
                  /\ finalOut' = "new"
    /\ UNCHANGED <<fs, env, cfg, basePath, isTempRepo, finalOutputFile,
                   gitIgnoreCache, tstack, tree, treeWritten, wstack, content,
                   call, verdict>>

Next ==
    \/ Setup
    \/ CreateTemp
    \/ TreeStart
    \/ TreeStep
    \/ WriteTree
    \/ WalkStart
    \/ WalkStep
    \/ Finish

Spec == Init /\ [][Next]_vars

\* The runs over the tree with symbolic links, under every configuration.
InitLinks == Init /\ fs = T_Links /\ env = DefaultEnv

\* Process runs on one goroutine from its call to its return: a step that
\* can be taken is taken.
SpecLive == InitLinks /\ [][Next]_vars /\ WF_vars(Next)

----------------------------------------------------------------------------
(* FileFilter.IsExcluded on its own, as the filefilter tests call it        *)

\* compileGitIgnoreInDir of the tests: the root's and the subdirectory's
\* matchers of the override scenario, and a directory-only rule.
RootIgnore == Matcher(<<>>, CompileIgnoreFile(<<L.star_log>>))
SubIgnore == Matcher(<<N.sub>>, CompileIgnoreFile(<<L.not_important, L.star_txt>>))
CacheIgnore == Matcher(<<>>, CompileIgnoreFile(<<L.cache_dir>>))

FilterStacks == {<<>>, <<RootIgnore>>, <<RootIgnore, SubIgnore>>, <<CacheIgnore>>}

FilterPaths ==
    { <<N.x_log>>, <<N.a_txt>>, <<N.out_txt>>, <<N.cache>>, <<N.build>>,
      <<N.link>>, <<N.README_md>>, <<N.sub, N.important_log>>,
      <<N.sub, N.other_log>>, <<N.sub, N.data_txt>>, <<N.sub, N.fileB_md>>,
      <<N.sub, N.cache>>, <<N.cache, N.a_txt>>, <<N.tool_AppImage>>,
      <<N.sub, N.build>>, <<N.assets_png>>, <<N.go_sum>>, <<N.LICENSE>>,
      <<N.LICENSE_MIT>>, <<N.readme_utils_go>>, <<N.Readme_txt>>, <<N.notes_md>> }

FilterEntries ==
    { [Entry(kind, size, exec) EXCEPT !.info = info] :
          kind \in {"file", "dir", "symlink"}, size \in 0..MaxSize,
          exec \in BOOLEAN, info \in {"ok", "notexist", "err"} }

\* NewFileFilter(baseDir, cfg) with the output file in the base directory,
\* and the arguments of one call.
InitFilter ==
    /\ pc = "filter"
    /\ result = "none"
    /\ fs = T_Nested
    /\ env = DefaultEnv
    /\ basePath = <<N.w, N.p>>
    /\ isTempRepo = FALSE
    /\ tempRepoDir = "none"
    /\ finalOutputFile = <<N.w, N.p, N.out_txt>>
    /\ gitIgnoreCache = <<>>
    /\ tempOut = "none"
    /\ finalOut = "absent"
    /\ tstack = <<>>
    /\ tree = <<>>
    /\ treeWritten = FALSE
    /\ wstack = <<>>
    /\ content = <<>>
    /\ verdict = NoVerdict
    /\ cmdline = NoCmdline
    /\ maxFileSize = NotParsed
    /\ file = NoFile
    /\ block = <<>>
    /\ cfg \in Configs
    /\ \E path \in FilterPaths, d \in FilterEntries, ignores \in FilterStacks :
          call = [site |-> "test", path |-> path, d |-> d, ignores |-> ignores]

\* filter.IsExcluded(absPath, d, activeIgnores).
CallIsExcluded ==
    /\ pc = "filter"
    /\ UNCHANGED <<cmdline, maxFileSize, file, block>>
    /\ verdict' = IsExcluded(Filter, AbsPath(call.path), call.d, call.ignores)
    /\ pc' = "filtered"
    /\ UNCHANGED <<fs, env, cfg, result, basePath, isTempRepo, tempRepoDir,
                   finalOutputFile, gitIgnoreCache, tempOut, finalOut, tstack,
                   tree, treeWritten, wstack, content, call>>

NextFilter == CallIsExcluded

SpecFilter == InitFilter /\ [][NextFilter]_vars

\* The runs of Process together with the single calls of IsExcluded.
InitAll == Init \/ InitFilter

NextAll == Next \/ NextFilter

SpecAll == InitAll /\ [][NextAll]_vars

----------------------------------------------------------------------------
(* processor: the content block of an accepted file                        *)

\* The bytes a file is made of, and the longest file drawn.
FileBytes == {"a", "\r", "\n"}
MaxLen == 4

\* bufio.MaxScanTokenSize, the size the Scanner's buffer may grow to.  It is
\* 64 * 1024 in the library; the runs use a buffer of three bytes, so that
\* files of MaxLen bytes hold lines that fit and lines that do not.
MaxScanTokenSize == 3

\* The files of at most MaxLen bytes.
Contents == UNION {[1..n -> FileBytes] : n \in 0..MaxLen}

\* bytes.IndexByte(data, '\n'), 0 when there is none.
NewlineAt(data) ==
    IF \E i \in DOMAIN data : data[i] = "\n"
    THEN CHOOSE i \in DOMAIN data : data[i] = "\n" /\ \A j \in 1..(i - 1) : data[j] # "\n"
    ELSE 0

\* dropCR of bufio.ScanLines: one carriage return at the end is dropped.
dropCR(data) ==
    IF data # <<>> /\ data[Len(data)] = "\r" THEN SubSeq(data, 1, Len(data) - 1) ELSE data

\* The loop over scanner.Scan(): every token is written with a line feed
\* after it.  A line is the bytes before the next line feed, or the bytes
\* left at the end of the file; a line that fills the buffer without a line
\* feed ends the scan with bufio.ErrTooLong.  Gives the text written and
\* scanner.Err().
RECURSIVE ScanAndWrite(_)
ScanAndWrite(data) ==
    IF data = <<>> THEN [text |-> <<>>, err |-> "nil"]
    ELSE LET i    == NewlineAt(data)
             line == IF i = 0 THEN data ELSE SubSeq(data, 1, i - 1)
             rest == IF i = 0 THEN <<>> ELSE SubSeq(data, i + 1, Len(data))
             more == ScanAndWrite(rest)
         IN  IF Len(line) >= MaxScanTokenSize
             THEN [text |-> <<>>, err |-> "token too long"]
             ELSE [text |-> dropCR(line) \o <<"\n">> \o more.text, err |-> more.err]

\* The fence, the header line, the closing fence and the notes written in place of
\* content that could not be read.
\* The element "grave" stands for one grave accent character.
Fence == <<"grave", "grave", "grave">>
Header(relPath) == Fence \o relPath \o <<"\n">>
Footer == Fence \o <<"\n", "\n">>
ReadErrorNote(relPath) ==
    <<"/","/"," ","E","r","r","o","r"," ","r","e","a","d","i","n","g"," ","f","i","l","e"," ","'">> \o relPath
    \o <<"'",":"," ","o","p","e","n"," ","f","a","i","l","e","d">> \o <<"\n">>
ScanErrorNote(relPath) ==
    <<"/","/"," ","E","r","r","o","r"," ","s","c","a","n","n","i","n","g"," ","f","i","l","e"," ","'">> \o relPath
    \o <<"'",":"," ","b","u","f","i","o",".","S","c","a","n","n","e","r",":"," ","t","o","k","e","n"," ","t","o","o"," ","l","o","n","g">> \o <<"\n">>

\* What the callback writes for an accepted file: the header, the content
\* as the scanner loop copies it (or the note of a failed os.Open, or the
\* lines scanned and the note of a failed scan), the closing fence.
ContentBlock(relPath, opened, data) ==
    LET scanned == ScanAndWrite(data)
    IN  Header(relPath)
        \o (IF ~opened THEN ReadErrorNote(relPath)
            ELSE IF scanned.err # "nil" THEN scanned.text \o ScanErrorNote(relPath)
            ELSE scanned.text)
        \o Footer

\* An accepted file sub/a.txt of the root, with any content.
InitCopy ==
    /\ pc = "copy"
    /\ Fresh
    /\ cmdline = NoCmdline
    /\ maxFileSize = NotParsed
    /\ cfg = DefaultConfig
    /\ env = DefaultEnv
    /\ finalOut = "absent"
    /\ fs = T_Repo
    /\ file \in [path : {<<N.sub, N.a_txt>>}, bytes : Contents]
    /\ block = <<>>

\* The callback on the accepted file, from the header to the closing fence.
\* os.Open may fail; a failed write to the temporary output ends the walk.
CopyFile ==
    /\ pc = "copy"
    /\ \E outcome \in {"opened", "openfailed", "writefailed"} :
          IF outcome = "writefailed"
          THEN /\ pc' = "done"
               /\ result' = "error"
               /\ UNCHANGED <<block, content>>
          ELSE /\ block' = ContentBlock(JoinSlash(file.path), outcome = "opened", file.bytes)
               /\ content' = Append(content, file.path)
               /\ pc' = IF outcome = "opened" THEN "copied" ELSE "notcopied"
               /\ UNCHANGED result
    /\ UNCHANGED <<fs, env, cfg, basePath, isTempRepo, tempRepoDir, finalOutputFile,
                   gitIgnoreCache, tempOut, finalOut, tstack, tree, treeWritten,
                   wstack, call, verdict, cmdline, maxFileSize, file>>

NextCopy == CopyFile

SpecCopy == InitCopy /\ [][NextCopy]_vars

----------------------------------------------------------------------------

(* cmd: the command line                                                   *)

\* The sources and the --max-file-size values given.
Sources ==
    { A.src_http, A.src_https, A.src_git_at, A.src_ssh, A.src_local_git,
      A.src_local, A.src_scp, A.src_dot_git, A.src_random, A.src_slash,
      A.src_two_git, A.src_domain, A.src_host, A.src_slashes, A.src_dot, N.p }

SizeStrings ==
    { A.size_default, A.size_0, A.size_2, A.size_1024, A.size_2KB, A.size_frac,
      A.size_space, A.size_lower, A.size_tenth, A.size_B, A.size_empty,
      A.size_abc, A.size_neg, A.size_dots, A.size_unit, A.size_maxTB,
      A.size_overTB, A.size_over2TB, A.size_max, A.size_over, A.size_maxB,
      A.size_2p53, A.size_2p53_1, A.size_2p53_1plain, A.size_KBover,
      A.size_nearKB }

\* A boolean flag is absent, or given with a value (--tree is --tree=true).
FlagStates == {"unset", "true", "false"}

\* The sources hold two definitions of utils.ParseFileSize; a binary is
\* built from one of them.
UtilsBuilds == {"part_000", "fileutils.go"}

\* A combination in which --tree, when given, decides before --no-tree.
TreeFlagWins(includeTree, treeChanged, noTree, noTreeChanged) ==
    IF treeChanged THEN includeTree
    ELSE IF noTreeChanged THEN ~noTree
    ELSE includeTree

\* The Config value of RunE: the flag's variable and cmd.Flags().Changed
\* for --tree and --no-tree.
finalIncludeTree(includeTree, treeChanged, noTree, noTreeChanged) ==
    IF noTreeChanged THEN ~noTree
    ELSE IF treeChanged THEN includeTree
    ELSE includeTree

\* The int64 of ParseFileSize as a number within 32 bits, for the filter:
\* a negative value stays negative, and a value of more than 30 bits becomes
\* 2^30, above the size of every file of the model.
MaxFileSizeOf(r) ==
    IF r.neg THEN 0 - 1
    ELSE IF BitLen(r.val) > 2 * LimbBits THEN 2 ^ (2 * LimbBits)
    ELSE IF r.val = <<>> THEN 0
    ELSE IF Len(r.val) = 1 THEN r.val[1]
    ELSE r.val[1] + Base * r.val[2]

\* The program is started with one argument and its flags; the source, when
\* it is not cloned, names the repository tree, which may not exist.
InitCmd ==
    /\ pc = "cli"
    /\ Fresh
    /\ maxFileSize = NotParsed
    /\ file = NoFile
    /\ block = <<>>
    /\ cfg = DefaultConfig
    /\ env = DefaultEnv
    /\ finalOut = "absent"
    /\ fs \in {T_Repo, [T_Repo EXCEPT ![<<>>].info = "notexist"]}
    /\ \E source \in Sources, size \in SizeStrings, treeFlag \in FlagStates,
          noTreeFlag \in FlagStates, utils \in UtilsBuilds :
          /\ source = N.p \/ (size = A.size_default /\ utils = "part_000")
          /\ fs = T_Repo \/ (size = A.size_default /\ treeFlag = "unset"
                                /\ noTreeFlag = "unset")
          /\ cmdline = [source |-> source, maxFileSizeStr |-> size,
                        tree |-> treeFlag, noTree |-> noTreeFlag, utils |-> utils]

\* rootCmd.RunE up to proc.Process(): the size is parsed, the tree flags are
\* combined and the Config is handed to the processor.
RunE ==
    /\ pc = "cli"
    /\ \E parsed \in IF cmdline.utils = "part_000"
                     THEN {ParseFileSize(cmdline.maxFileSizeStr)}
                     ELSE ParseFileSizeUnchecked(cmdline.maxFileSizeStr) :
          /\ maxFileSize' = parsed
          /\ IF parsed.err # "nil"
             THEN /\ pc' = "done"
                  /\ result' = "error"
                  /\ UNCHANGED cfg
             ELSE /\ cfg' = [DefaultConfig EXCEPT
                               !.SourcePath  = cmdline.source,
                               !.IncludeTree = finalIncludeTree(cmdline.tree # "false",
                                                                cmdline.tree # "unset",
                                                                cmdline.noTree = "true",
                                                                cmdline.noTree # "unset"),
                               !.MaxFileSize = MaxFileSizeOf(parsed)]
                  /\ pc' = "start"
                  /\ UNCHANGED result
    /\ UNCHANGED <<fs, env, basePath, isTempRepo, tempRepoDir, finalOutputFile,
                   gitIgnoreCache, tempOut, finalOut, tstack, tree, treeWritten,
                   wstack, content, call, verdict, cmdline, file, block>>

NextCmd == RunE \/ Next

SpecCmd == InitCmd /\ [][NextCmd]_vars

----------------------------------------------------------------------------
(* Properties                                                              *)

\* The relative paths of the files listed in the tree, of all nodes of the
\* tree, and of the content blocks.
TreeFiles == {tree[i].path : i \in {j \in DOMAIN tree : ~tree[j].isDir}}
TreeNodes == {tree[i].path : i \in DOMAIN tree}
ContentFiles == {content[i] : i \in DOMAIN content}

\* Process returned nil.
Succeeded == pc = "done" /\ result = "ok"

\* C1: after Process has run with the tree enabled, the set of files with a
\* content block equals the set of files listed in the tree.
C1_TreeAndContentAgree ==
    (Succeeded /\ cfg.IncludeTree) => ContentFiles = TreeFiles

\* C2: with the stack [root, sub], a file matched by a negation pattern of
\* the deepest .gitignore is not excluded by the gitignore rule although an
\* ancestor's .gitignore matches it; in the scenario sub/important.log is
\* included, sub/other.log, sub/data.txt and the root's x.log are excluded.
C2_OverrideBySpecificity ==
    (pc = "filtered" /\ call.d.kind = "file" /\ call.d.info = "ok"
        /\ ~IsOutputFile(Filter, AbsPath(call.path))) =>
       /\ (/\ call.ignores # <<>>
           /\ \E i \in DOMAIN call.ignores[Len(call.ignores)].patterns :
                 LET pat == call.ignores[Len(call.ignores)].patterns[i]
                 IN  pat.negate /\ PatternMatches(pat, AbsPath(call.path)))
          => verdict.rule # "gitignore"
       /\ (/\ call.ignores = <<RootIgnore, SubIgnore>>
           /\ call.path = <<N.sub, N.important_log>>
           /\ ~InList(E.log, cfg.DefaultMiscellaneousExtensions)
           /\ ~TooLarge(cfg.MaxFileSize, call.d.size)
           /\ ~call.d.exec)
          => ~verdict.excluded
       /\ (/\ call.ignores = <<RootIgnore, SubIgnore>>
           /\ call.path \in {<<N.sub, N.other_log>>, <<N.sub, N.data_txt>>})
          => verdict.excluded
       /\ (call.ignores = <<RootIgnore>> /\ call.path = <<N.x_log>>)
          => verdict.excluded

\* C3: when the output file lies inside the root, the entry at the output
\* path is never a node of the tree and never gets a content block.
C3_OutputSelfExclusion ==
    env.outInside =>
       /\ \A i \in DOMAIN tree : AbsPath(tree[i].path) # finalOutputFile
       /\ \A i \in DOMAIN content : AbsPath(content[i]) # finalOutputFile

\* C3, reached: the content walk has just met the existing output file, after
\* the tree was built.
C3_Witness ==
    /\ env.outInside
    /\ tree # <<>>
    /\ call.site = "walk"
    /\ AbsPath(call.path) = finalOutputFile
    /\ call.d.info = "ok"
    /\ verdict = Verdict(TRUE, "nil", "output")

\* A run on the tree given, with the Config and the environment of a plain
\* local run, that returned nil.
SucceededOn(f) == Succeeded /\ fs = f /\ cfg = DefaultConfig /\ env = DefaultEnv

\* C4: with the default lists and the root of the basic .gitignore scenario,
\* the content blocks are exactly .gitignore and fileA.txt, and the tree shows
\* exactly those two entries.
C4_GitignoreBasicIncluded ==
    SucceededOn(T_GitignoreBasic) =>
       /\ ContentFiles = {<<N.gitignore>>, <<N.fileA_txt>>}
       /\ TreeNodes = {<<N.gitignore>>, <<N.fileA_txt>>}

\* C5: under the rule cache/ the directory cache is not a node of the tree and
\* nothing below it is in the tree or the content, while the regular file
\* named cache is in both.
C5_DirOnlyRule ==
    SucceededOn(T_DirOnly) =>
       /\ \A p \in TreeNodes \cup ContentFiles : p[1] # N.cache
       /\ <<N.sub, N.cache>> \in TreeFiles \cap ContentFiles

\* The position of a file in the depth-first reading of the tree.
TreeIndex(p) == CHOOSE i \in DOMAIN tree : tree[i].path = p

\* C6: any two files with content blocks that are both listed in the tree
\* come in the same order in the content as in the tree.
C6_ContentInTreeOrder ==
    (Succeeded /\ cfg.IncludeTree) =>
       \A i, j \in DOMAIN content :
          (i < j /\ content[i] \in TreeFiles /\ content[j] \in TreeFiles)
             => TreeIndex(content[i]) < TreeIndex(content[j])

\* C7: when the root is a directory that cannot be listed, Process returns an
\* error and the output path holds what it held before.
C7_UnreadableRootAborts ==
    (pc = "done" /\ env.src = "local" /\ fs[<<>>].kind = "dir"
        /\ fs[<<>>].info = "ok" /\ fs[<<>>].readdir # "ok") =>
       /\ result = "error"
       /\ finalOut = IF env.outOld THEN "old" ELSE "absent"

\* C8: a subdirectory that cannot be read for lack of permission is no node of
\* the tree and has nothing in the content, the walk goes on to the end, and
\* the readable files beside it are in the tree and the content.
C8_UnreadableSubdirSkipped ==
    /\ \A p \in TreeNodes \cup ContentFiles :
          \A k \in 1..Len(p) :
             ~(fs[SubSeq(p, 1, k)].kind = "dir" /\ fs[SubSeq(p, 1, k)].readdir = "perm")
    /\ SucceededOn(T_AccessDenied) =>
          {<<N.fileA_txt>>, <<N.sub, N.fileB_md>>} \subseteq TreeFiles \cap ContentFiles

\* The call recorded has returned, on a regular file whose metadata was read
\* and that the output file check and the gitignore rule let through.
ReachedSizeRule ==
    /\ call.site # "none"
    /\ pc # "filter"
    /\ call.d.kind = "file"
    /\ call.d.info = "ok"
    /\ AbsPath(call.path) # finalOutputFile
    /\ ~GitignoreExcludes(call.ignores, AbsPath(call.path))

\* C9: a regular file that no earlier rule excluded is excluded by the size
\* rule exactly when MaxFileSize > 0 and its size is greater than MaxFileSize;
\* a size equal to the limit, and any size under the limit 0, is let through
\* by the size rule.
C9_SizeRule ==
    ReachedSizeRule =>
       IF cfg.MaxFileSize > 0 /\ call.d.size > cfg.MaxFileSize
       THEN verdict = Verdict(TRUE, "nil", "size")
       ELSE verdict.rule # "size"

\* C9, reached: a file one byte over a positive limit was excluded by size.
C9_Witness ==
    /\ ReachedSizeRule
    /\ cfg.MaxFileSize > 0
    /\ call.d.size = cfg.MaxFileSize + 1
    /\ verdict.rule = "size"

\* The call recorded has returned, on a symbolic link.
DecidedSymlink == call.site # "none" /\ pc # "filter" /\ call.d.kind = "symlink"

\* No node of the tree and no content block is a symbolic link below the
\* root, or lies below one.
NoSymlinkListed ==
    \A p \in TreeNodes \cup ContentFiles :
       \A k \in 1..Len(p) : fs[SubSeq(p, 1, k)].kind # "symlink"

Planted(f, dir) == (dir \o <<N.gitignore>> :> IgnoreFile(<<L.not_out>>)) @@ f
Uprooted(f, dir) == [p \in DOMAIN f \ {dir \o <<N.gitignore>>} |-> f[p]]

\* A call of compileAndCacheGitIgnore for a cached directory returns the
\* cached value and leaves the cache alone, whatever is on disk by then.
ServedFromCache ==
    \A dir \in DOMAIN gitIgnoreCache :
       \A f \in {fs, Planted(fs, dir), Uprooted(fs, dir)} :
          compileAndCacheGitIgnore(gitIgnoreCache, f, dir) =
             [matcher |-> gitIgnoreCache[dir], cache |-> gitIgnoreCache]

\* No step removes or replaces an entry of the cache.
CacheEntriesKept ==
    \A dir \in DOMAIN gitIgnoreCache :
       dir \in DOMAIN gitIgnoreCache' /\ gitIgnoreCache'[dir] = gitIgnoreCache[dir]

\* C11: after the first call of compileAndCacheGitIgnore for a directory,
\* every later call of the run returns the same value (the matcher or the
\* cached nil) without reading the filesystem, and an entry of the cache,
\* once written, is never replaced.
C11_CacheIdempotent == []ServedFromCache /\ [][CacheEntriesKept]_vars

\* C11, reached: the tree builder and then the content walk have both asked
\* for the matchers of a directory with a .gitignore and of one without.
C11_Witness ==
    /\ Succeeded
    /\ cfg.IncludeTree
    /\ content # <<>>
    /\ \E d1, d2 \in DOMAIN gitIgnoreCache :
          ~gitIgnoreCache[d1].nil /\ gitIgnoreCache[d2].nil

\* IsExcluded has returned on a regular file whose metadata was read.
DecidedFile == pc = "filtered" /\ call.d.kind = "file" /\ call.d.info = "ok"

\* The extension of the file of the call equals, ignoring letter case, a
\* non-empty entry of the list.
ExtInListFold(list) ==
    \E i \in DOMAIN list :
       /\ list[i] # <<>>
       /\ ToLower(Ext(call.path[Len(call.path)])) = ToLower(list[i])

\* C12: a regular file whose extension equals, ignoring letter case, an entry
\* of the user-excluded, media or archive extension list of the
\* configuration is excluded by IsExcluded.
C12_ExtensionsCaseInsensitive ==
    (/\ DecidedFile
     /\ \/ ExtInListFold(cfg.UserExcludeExts)
        \/ ExtInListFold(cfg.DefaultMediaExts)
        \/ ExtInListFold(cfg.DefaultArchiveExts))
    => verdict.excluded

\* The entry at path p is a directory below the root whose root-relative path
\* or base name matches a user glob.
DirMatchesUserGlob(p) ==
    /\ p # <<>>
    /\ fs[p].kind = "dir"
    /\ UserGlobExcludes(cfg.UserExcludeGlobs, JoinSlash(p), p[Len(p)])

\* C13: a directory whose root-relative path or base name matches a user glob
\* is not a node of the tree, and nothing below it is a node of the tree or
\* gets a content block.
C13_UserGlobExcludesDirs ==
    \A n \in TreeNodes \cup ContentFiles :
       \A k \in 1..Len(n) : ~DirMatchesUserGlob(SubSeq(n, 1, k))

\* C14: when Process has returned after a successful clone, whether with nil
\* or with an error, the clone's temporary parent directory has been removed.
C14_CloneRemovedOnReturn ==
    (pc = "done" /\ isTempRepo) => tempRepoDir = "removed"

\* Nodes i and j of the tree are children of the same directory, i listed
\* before j.
Siblings(i, j) ==
    /\ i < j
    /\ Len(tree[i].path) = Len(tree[j].path)
    /\ SubSeq(tree[i].path, 1, Len(tree[i].path) - 1) =
          SubSeq(tree[j].path, 1, Len(tree[j].path) - 1)

\* The name of node i.
NodeName(i) == tree[i].path[Len(tree[i].path)]

Configured == pc # "cli" /\ maxFileSize.err = "nil"

\* C17: the IncludeTree handed to the processor is the negation of the
\* --no-tree value when --no-tree was given, whatever --tree says;
\* otherwise the --tree value when --tree was given; otherwise true.
C17_IncludeTreeFromFlags ==
    Configured =>
       cfg.IncludeTree =
          IF cmdline.noTree # "unset" THEN cmdline.noTree = "false"
          ELSE IF cmdline.tree # "unset" THEN cmdline.tree = "true"
          ELSE TRUE

\* C17, reached: --tree=false --no-tree=false was given and the processor
\* got IncludeTree = true.
C17_Witness ==
    /\ Configured
    /\ cmdline.tree = "false"
    /\ cmdline.noTree = "false"
    /\ cfg.IncludeTree

\* A string that begins with http://, https://, git@ or ssh://.
HasURLPrefix(path) ==
    \/ HasPrefix(path, U.http)
    \/ HasPrefix(path, U.https)
    \/ HasPrefix(path, U.git_at)
    \/ HasPrefix(path, U.ssh)

\* C18: a source that does not begin with http://, https://, git@ or ssh://
\* is processed as a local path: setupInitialPaths clones nothing for it.
C18_OnlyPrefixedSourcesCloned ==
    (Configured /\ pc # "start" /\ ~HasURLPrefix(cfg.SourcePath)) =>
       (~isTempRepo /\ tempRepoDir = "none")

\* The string without the slashes it ends with.
RECURSIVE TrimSlashes(_)
TrimSlashes(s) ==
    IF s # <<>> /\ s[Len(s)] = "/" THEN TrimSlashes(SubSeq(s, 1, Len(s) - 1)) ELSE s

\* What follows the first colon of user@host:path, the path of a git@ URL;
\* the whole string when it has no colon.
RECURSIVE AfterHostAt(_, _)
AfterHostAt(s, i) ==
    IF i > Len(s) THEN s
    ELSE IF s[i] = ":" THEN SubSeq(s, i + 1, Len(s))
    ELSE AfterHostAt(s, i + 1)

AfterHost(s) == AfterHostAt(s, 1)

\* The last non-empty path component of a URL without its scheme prefix and
\* its trailing .git; the fallback name when there is none.
LastNonEmptyComponent(url) ==
    LET noScheme ==
            IF HasPrefix(url, U.https) THEN TrimPrefix(url, U.https)
            ELSE IF HasPrefix(url, U.http) THEN TrimPrefix(url, U.http)
            ELSE IF HasPrefix(url, U.git_at) THEN AfterHost(TrimPrefix(url, U.git_at))
            ELSE url
        name == LastPart(TrimSlashes(TrimSuffix(noScheme, U.dot_git)))
    IN  IF name # <<>> THEN name ELSE U.repository

\* C19: the clone directory is named by the last non-empty path component
\* of the URL, also when the URL ends with a slash, and by the fallback name
\* only when the URL has no non-empty component.
C19_RepoNameIsLastComponent ==
    isTempRepo => basePath = <<N.t, LastNonEmptyComponent(cfg.SourcePath)>>

\* The --max-file-size value as its syntax reads: the digits of the numeric
\* part, the number of fraction digits, the unit's power of two.
GivenSize ==
    LET s == TrimSpace(cmdline.maxFileSizeStr)
    IN  [ wellFormed |-> OnlyDigits(s) \/ SizeSyntax(s).ok
        , digits     |-> FromDigits(SizeSyntax(s).int \o SizeSyntax(s).frac)
        , fracLen    |-> Len(SizeSyntax(s).frac)
        , shift      |-> SizeSyntax(s).shift ]

\* The byte value digits * 2^shift / 10^fracLen exceeds math.MaxInt64.
ExceedsInt64 ==
    BLess(TimesTen(MaxInt64, GivenSize.fracLen), Shl(GivenSize.digits, GivenSize.shift))

\* C20: ParseFileSize returns (0, error) for every input whose byte value
\* exceeds the int64 maximum (8388608TB with "overflows int64", the digit
\* string 9223372036854775808 with "invalid plain byte size" and "value out
\* of range"), and the exact byte count for every integer input at or below
\* the maximum.
C20_OverflowRejectedElseExact ==
    (pc # "cli" /\ GivenSize.wellFormed) =>
       /\ ExceedsInt64 =>
             /\ maxFileSize.err # "nil"
             /\ maxFileSize.val = <<>>
             /\ ~maxFileSize.neg
       /\ cmdline.maxFileSizeStr = A.size_overTB => maxFileSize.err = "overflows int64"
       /\ cmdline.maxFileSizeStr = A.size_over =>
             maxFileSize.err = "invalid plain byte size: value out of range"
       /\ (~ExceedsInt64 /\ GivenSize.fracLen = 0) =>
             maxFileSize = Size(Shl(GivenSize.digits, GivenSize.shift))

\* C21: for an accepted file whose content was read, the text between the
\* header line and the closing fence is the file's content, byte for byte:
\* line terminators, a missing final newline and long lines are unchanged.
C21_ContentVerbatim ==
    pc = "copied" =>
       block = Header(JoinSlash(file.path)) \o file.bytes \o Footer

\* The compiled, non-nil matchers of the directories from the root down to
\* dir, root-most first, as the .gitignore files on disk give them.
RECURSIVE MatchersDownTo(_)
MatchersDownTo(dir) ==
    LET own == CompileFromDisk(fs, dir)
        up  == IF dir = <<>> THEN <<>>
               ELSE MatchersDownTo(SubSeq(dir, 1, Len(dir) - 1))
    IN  IF own.nil THEN up ELSE Append(up, own)

\* C22: in the tree builder and in the traversal driver, the stack handed to
\* IsExcluded for an entry is exactly the matchers of the directories from
\* the root down to the directory that contains the entry, root-most first,
\* each once; the .gitignore of a directory is not in the stack that decides
\* the directory itself.
C22_StackIsAncestorsMatchers ==
    call.site \in {"tree", "walk"} =>
       call.ignores =
          IF call.path = <<>> THEN <<>>
          ELSE MatchersDownTo(SubSeq(call.path, 1, Len(call.path) - 1))

\* dir is path or a directory above it.
IsPrefixOf(dir, path) == Len(dir) <= Len(path) /\ SubSeq(path, 1, Len(dir)) = dir

\* Every matcher of the stack belongs to dir or to a directory above it.
OnlyFromAbove(ignores, dir) ==
    \A i \in DOMAIN ignores : IsPrefixOf(ignores[i].dir, dir)

\* No pending call of buildNodeRecursive and no call of IsExcluded holds the
\* matcher of a directory beside its own path.
NoSiblingMatcher ==
    /\ \A i \in DOMAIN tstack : OnlyFromAbove(tstack[i].ignores, tstack[i].dir)
    /\ call.site \in {"tree", "walk"} => OnlyFromAbove(call.ignores, call.path)

\* A pending call of buildNodeRecursive keeps its stack while the calls
\* below it run and return.
ParentStackKept ==
    \A i \in DOMAIN tstack :
        (i \in DOMAIN tstack' /\ tstack'[i].dir = tstack[i].dir) =>
            tstack'[i].ignores = tstack[i].ignores

\* C23: extending the matcher stack for a directory never changes the stack
\* of its parent: after the call for a child directory returned, the
\* remaining entries of the parent and every sibling are decided with the
\* parent's unchanged stack, which does not hold the child's matcher.
C23_ParentStackUnchanged == []NoSiblingMatcher /\ [][ParentStackKept]_vars

\* C23, reached: sub, which has its own .gitignore, was entered and left, and
\* the tree builder decides the root's next entry with the root's stack.
C23_Witness ==
    /\ call.site = "tree"
    /\ Len(call.path) = 1
    /\ call.path # <<N.sub>>
    /\ <<N.sub>> \in DOMAIN gitIgnoreCache
    /\ ~gitIgnoreCache[<<N.sub>>].nil
    /\ \E i \in DOMAIN tree : tree[i].path = <<N.sub>>
    /\ call.ignores = <<gitIgnoreCache[<<>>]>>
    /\ ~gitIgnoreCache[<<>>].nil

\* The call recorded has returned, on a directory below the root.
DecidedDir ==
    call.site # "none" /\ pc # "filter" /\ call.d.kind = "dir" /\ call.path # <<>>

\* The base name of the entry of the call is a default or user excluded
\* directory name, letter for letter.
HasExcludedDirName ==
    InList(call.path[Len(call.path)], cfg.DefaultExcludeDirs \o cfg.UserExcludeDirs)

\* The directories below the root that the filter excludes with their
\* subtree, by name or by the .gitignore files above them.
SkippedDirs ==
    { p \in DOMAIN fs \ {<<>>} :
        /\ fs[p].kind = "dir"
        /\ fs[p].info = "ok"
        /\ IsExcluded(Filter, AbsPath(p), fs[p],
                      MatchersDownTo(SubSeq(p, 1, Len(p) - 1))).err = "SkipDir" }

\* No entry below a skipped directory was decided, listed or copied.
NothingBelowSkipped ==
    \A s \in SkippedDirs :
       /\ \A p \in TreeNodes \cup ContentFiles : ~(IsPrefixOf(s, p) /\ p # s)
       /\ call.site \in {"tree", "walk"} => ~(IsPrefixOf(s, call.path) /\ call.path # s)

\* A regular file is never excluded by the directory-name rule.
FileNotExcludedAsDir ==
    (call.site # "none" /\ pc # "filter" /\ call.d.kind = "file") =>
       (verdict.rule # "dirname" /\ verdict.err # "SkipDir")

DecidedPlainDir ==
    /\ call.site # "none"
    /\ pc # "filter"
    /\ call.d.kind = "dir"
    /\ AbsPath(call.path) # finalOutputFile
    /\ ~InList(AbsPath(call.path)[Len(AbsPath(call.path))],
               cfg.DefaultExcludeDirs \o cfg.UserExcludeDirs)
    /\ ~GitignoreExcludes(call.ignores, AbsPath(call.path))

ProjectMetaNames ==
    { <<"L","I","C","E","N","S","E">>
    , <<"R","E","A","D","M","E">>
    , <<"N","O","T","I","C","E">>
    , <<"A","U","T","H","O","R","S">>
    , <<"C","H","A","N","G","E","L","O","G">>
    , <<"C","O","N","T","R","I","B","U","T","I","N","G">>
    , <<"M","A","N","I","F","E","S","T">>
    , <<"C","O","P","Y","I","N","G">> }

\* The call recorded has returned, on a regular file whose base name begins,
\* ignoring case, with a project-meta name.
DecidedMetaFile ==
    /\ call.site # "none"
    /\ pc # "filter"
    /\ call.d.kind = "file"
    /\ call.d.info = "ok"
    /\ \E n \in ProjectMetaNames :
          HasPrefix(ToLower(call.path[Len(call.path)]), ToLower(n))

NoLinkAbove(path) ==
    \A k \in 1..(Len(path) - 1) : fs[SubSeq(path, 1, k)].kind = "dir"

\* No symbolic link below the root was descended into: no pending call of
\* buildNodeRecursive and no pending listing of WalkDir is for a symbolic
\* link or lies below one, no node of the tree that was recursed into is a
\* symbolic link, and no entry decided lies below one.
NoLinkEntered ==
    /\ \A i \in DOMAIN tstack :
          tstack[i].dir # <<>> =>
             (fs[tstack[i].dir].kind = "dir" /\ NoLinkAbove(tstack[i].dir))
    /\ \A i \in DOMAIN wstack :
          \A j \in DOMAIN wstack[i].entries : NoLinkAbove(wstack[i].entries[j])
    /\ \A i \in DOMAIN tree :
          /\ NoLinkAbove(tree[i].path)
          /\ tree[i].isDir => fs[tree[i].path].kind = "dir"
    /\ call.site \in {"tree", "walk"} => NoLinkAbove(call.path)

DecidedRoot ==
    /\ call.site = "walk"
    /\ call.path = <<>>
    /\ call.d.kind = "dir"
    /\ call.d.info = "ok"

\* C28: the traversal root itself is never excluded, whatever its base name
\* (also a default excluded directory name such as dist) and whatever its
\* own .gitignore matches: the callback of filepath.WalkDir lets the root
\* through.
C28_RootNeverExcluded == DecidedRoot => ~verdict.excluded

\* The temporary output file of a run whose output directory is inside the
\* root, as a path of the tree.
TempInRoot == Append(env.outDir, N.tmp)

\* C29: the temporary file that Process creates in an output directory inside
\* the root is never a node of the tree and never gets a content block,
\* under every configuration.
C29_TempFileNeverShown ==
    env.outInside => TempInRoot \notin TreeNodes \cup ContentFiles

\* C30: whenever Process returns an error, the file at the output path is
\* what it was before the call (not created, not truncated, not partly
\* written) and no temporary output file is left.
C30_OutputAllOrNothing ==
    (pc = "done" /\ result = "error") =>
       /\ finalOut = IF env.outOld THEN "old" ELSE "absent"
       /\ tempOut \in {"none", "removed"}

============================================================================
